---- MODULE Spec2Model ----
(***************************************************************************)
(* Cross-run deduplication and incremental delivery of the RSS workers of  *)
(* CF-Worker-RSS: the daily-bucket processRSS cycle of the FFXIV worker    *)
(* (src/ffxiv-tw-news-api.js) and of the multi-source GNN worker           *)
(* (src/unnamed/part_000, second file), and the merge of the PTT worker.   *)
(*                                                                         *)
(* Encoding of JavaScript values:                                          *)
(*   - a string is the tuple of its UTF-16 code units; the empty string   *)
(*     and null are both <<>> (the code tests them only for truthiness);   *)
(*   - a time is a number of Unit-long ticks since the epoch, Unit = 8 h;  *)
(*     an ISO-8601 string is <<"T", t>>; a number-or-null is <<n>> or <<>>.*)
(***************************************************************************)
EXTENDS Integers, Sequences, FiniteSets, TLC

Null == <<>>

----------------------------------------------------------------------------
(* Bounds of the model.                                                    *)

\* The clock runs from StartClock (a tick of day 1 of the Taipei calendar)
\* to MaxClock (a tick of day 2).
MaxClock == 5
\* Largest number of items of the feed in the batch specification.
MaxBatch == 6
\* Pruning is applied to ledgers of at most MaxLedger entries under a
\* capacity of at most MaxCap, and to ledgers of up to MaxOver entries more
\* than MAX_SENT_MAP_SIZE under the capacity of the code.
MaxLedger == 3
MaxCap == 2
MaxOver == 2

----------------------------------------------------------------------------
(* Program constants.                                                      *)

\* 8 hours, in ticks.
TAIPEI_OFFSET_MS == 1
MAX_ITEMS_PER_SEND == 5
MAX_RSS_ITEMS == 50
MAX_SENT_MAP_SIZE == 500
\* One day is three times the Taipei offset (24 h = 3 * 8 h).
DayTicks == 3 * TAIPEI_OFFSET_MS
\* SENT_MAP_TTL_SECONDS of the GNN worker: 2 days.
SENT_MAP_TTL_GNN == 2 * DayTicks
\* SENT_MAP_TTL_SECONDS of the FFXIV worker: 365 days, the expiry of the key.
SENT_MAP_TTL_FFXIV == 365 * DayTicks
\* DAILY_STATE_TTL_SECONDS of the FFXIV worker: 30 days.
DAILY_STATE_TTL_FFXIV == 30 * DayTicks
FNV_OFFSET_HI == 33052
FNV_OFFSET_LO == 40389
FNV_PRIME_HI == 256
FNV_PRIME_LO == 403
Two16 == 65536

----------------------------------------------------------------------------
(* Dates.                                                                  *)

ToISOString(t) == <<"T", t>>

IsISO(s) == Len(s) = 2 /\ s[1] = "T"

\* Date.parse: the time of an ISO string, NaN (<<>>) otherwise.
DateParse(s) == IF IsISO(s) THEN <<s[2]>> ELSE Null

IsFinite(n) == n # Null

getTaipeiDateKey(t) == (t + TAIPEI_OFFSET_MS) \div DayTicks

----------------------------------------------------------------------------
(* Strings.                                                                *)

RECURSIVE TrimLeft(_)
TrimLeft(s) == IF s # <<>> /\ Head(s) = 32 THEN TrimLeft(Tail(s)) ELSE s

RECURSIVE TrimRight(_)
TrimRight(s) ==
  IF s # <<>> /\ s[Len(s)] = 32 THEN TrimRight(SubSeq(s, 1, Len(s) - 1)) ELSE s

Trim(s) == TrimRight(TrimLeft(s))

\* a.localeCompare(b) < 0 on strings of lower-case ASCII letters and digits.
RECURSIVE StrLess(_, _)
StrLess(a, b) ==
  IF b = <<>> THEN FALSE
  ELSE IF a = <<>> THEN TRUE
  ELSE IF Head(a) # Head(b) THEN Head(a) < Head(b)
  ELSE StrLess(Tail(a), Tail(b))

----------------------------------------------------------------------------
(* Identity and its hash.                                                  *)

getArticleIdentity(article) ==
  IF article.guid # Null /\ Trim(article.guid) # <<>> THEN Trim(article.guid)
  ELSE IF article.link # Null /\ Trim(article.link) # <<>> THEN Trim(article.link)
  ELSE Null

RECURSIVE BitXor(_, _)
BitXor(a, b) ==
  IF a = 0 THEN b
  ELSE IF b = 0 THEN a
  ELSE (((a % 2) + (b % 2)) % 2) + 2 * BitXor(a \div 2, b \div 2)

\* One round of FNV-1a on the 32-bit word hi * 2^16 + lo:
\* hash ^= c; hash = Math.imul(hash, 0x01000193); hash >>>= 0.
FnvRound(h, c) ==
  LET lo == BitXor(h[2], c)
      hi == h[1]
      p  == lo * FNV_PRIME_LO
  IN  << ((hi * FNV_PRIME_LO) + (lo * FNV_PRIME_HI) + (p \div Two16)) % Two16,
         p % Two16 >>

RECURSIVE FnvFold(_, _)
FnvFold(h, s) == IF s = <<>> THEN h ELSE FnvFold(FnvRound(h, Head(s)), Tail(s))

\* hash.toString(16).padStart(8, '0'): the eight hexadecimal digits.
Hex4(n) == << n \div 4096, (n \div 256) % 16, (n \div 16) % 16, n % 16 >>

hashIdentifier(input) ==
  LET h == FnvFold(<<FNV_OFFSET_HI, FNV_OFFSET_LO>>, input)
  IN  Hex4(h[1]) \o Hex4(h[2])

----------------------------------------------------------------------------
(* Article records of a daily bucket, and the merge.                       *)
(* An article is [link, title, description, thumbnail, guid, publishedAt,   *)
(* publishedAtMs, sent, sentAt]; a parsed item has the first seven fields   *)
(* without sent and sentAt.  A JavaScript Map is the sequence of its values *)
(* in insertion order.                                                     *)

NoTitle == <<78, 111, 32, 84, 105, 116, 108, 101>>

\* A number is truthy unless it is null, NaN or 0.
TruthyNum(n) == n # Null /\ n[1] # 0

ArticleIndex(m, link) ==
  IF \E i \in 1..Len(m) : m[i].link = link
  THEN CHOOSE i \in 1..Len(m) : m[i].link = link
  ELSE 0

ArticleSet(m, a) ==
  LET i == ArticleIndex(m, a.link)
  IN  IF i = 0 THEN Append(m, a) ELSE [m EXCEPT ![i] = a]

\* The record mergeArticles seeds the map with for an existing article.
SeedArticle(article) ==
  [article EXCEPT
     !.publishedAtMs =
        IF IsFinite(article.publishedAtMs) THEN article.publishedAtMs
        ELSE IF article.publishedAt # Null THEN DateParse(article.publishedAt)
        ELSE Null,
     !.publishedAt =
        IF article.publishedAt # Null THEN article.publishedAt
        ELSE IF TruthyNum(article.publishedAtMs)
             THEN ToISOString(article.publishedAtMs[1])
        ELSE Null]

RECURSIVE SeedMap(_, _)
SeedMap(m, existingArticles) ==
  IF existingArticles = <<>> THEN m
  ELSE LET article == Head(existingArticles)
       IN  SeedMap(IF article.link = Null THEN m
                   ELSE ArticleSet(m, SeedArticle(article)),
                   Tail(existingArticles))

NewArticle(item) ==
  [link |-> item.link, title |-> item.title, description |-> item.description,
   thumbnail |-> item.thumbnail, guid |-> item.guid,
   publishedAt |-> item.publishedAt, publishedAtMs |-> item.publishedAtMs,
   sent |-> FALSE, sentAt |-> Null]

\* Mutant: an article the feed lists again is stored anew.
MergeItemOverwrites(acc, item) ==
  IF item.link = Null THEN acc
  ELSE [map |-> ArticleSet(acc.map, NewArticle(item)), hasChanges |-> TRUE]

\* The body of the loop over newItems: acc is [map, hasChanges].
MergeItem(acc, item) ==
  IF item.link = Null THEN acc
  ELSE
    LET i == ArticleIndex(acc.map, item.link)
    IN  IF i # 0
        THEN
          LET existing == acc.map[i]
              uT == item.title # Null /\ item.title # existing.title
              uD == item.description # Null /\ item.description # existing.description
              uH == item.thumbnail # Null /\ item.thumbnail # existing.thumbnail
              uG == item.guid # Null /\ item.guid # existing.guid
              uP == item.publishedAt # Null /\ item.publishedAt # existing.publishedAt
              next == [existing EXCEPT
                         !.title = IF uT THEN item.title ELSE @,
                         !.description = IF uD THEN item.description ELSE @,
                         !.thumbnail = IF uH THEN item.thumbnail ELSE @,
                         !.guid = IF uG THEN item.guid ELSE @,
                         !.publishedAt = IF uP THEN item.publishedAt ELSE @,
                         !.publishedAtMs = IF uP THEN item.publishedAtMs ELSE @]
          IN  IF uT \/ uD \/ uH \/ uG \/ uP
              THEN [map |-> [acc.map EXCEPT ![i] = next], hasChanges |-> TRUE]
              ELSE acc
        ELSE [map |-> Append(acc.map, NewArticle(item)), hasChanges |-> TRUE]

RECURSIVE MergeItems(_, _)
MergeItems(acc, newItems) ==
  IF newItems = <<>> THEN acc
  ELSE MergeItems(MergeItem(acc, Head(newItems)), Tail(newItems))

\* The comparator of the final sort returns a negative number.
ArticleBefore(a, b) ==
  LET aFin == IsFinite(a.publishedAtMs)
      bFin == IsFinite(b.publishedAtMs)
  IN  IF aFin /\ bFin /\ a.publishedAtMs # b.publishedAtMs
      THEN a.publishedAtMs[1] < b.publishedAtMs[1]
      ELSE IF aFin # bFin THEN aFin
      ELSE StrLess(a.link, b.link)

RECURSIVE InsertArticle(_, _)
InsertArticle(sorted, a) ==
  IF sorted = <<>> THEN <<a>>
  ELSE IF ArticleBefore(a, Head(sorted)) THEN <<a>> \o sorted
  ELSE <<Head(sorted)>> \o InsertArticle(Tail(sorted), a)

RECURSIVE SortFrom(_, _)
SortFrom(sorted, rest) ==
  IF rest = <<>> THEN sorted
  ELSE SortFrom(InsertArticle(sorted, Head(rest)), Tail(rest))

SortArticles(m) == SortFrom(<<>>, m)

\* Mutant: the merged list is built from the candidates alone.
mergeCandidatesOnly(existingArticles, newItems) ==
  LET acc == MergeItems([map |-> <<>>, hasChanges |-> FALSE], newItems)
  IN  [articles |-> SortArticles(acc.map), hasChanges |-> acc.hasChanges]

mergeArticles(existingArticles, newItems) ==
  LET acc == MergeItems([map |-> SeedMap(<<>>, existingArticles),
                         hasChanges |-> FALSE], newItems)
  IN  [articles |-> SortArticles(acc.map), hasChanges |-> acc.hasChanges]

\* mergeState of the PTT worker.  items is the object that maps an article
\* id to [id, url, title, author, push, sent, sentAt], as the sequence of its
\* values in key order; an entry is [id, url, title, author, push].
ItemIndex(items, id) ==
  IF \E i \in 1..Len(items) : items[i].id = id
  THEN CHOOSE i \in 1..Len(items) : items[i].id = id
  ELSE 0

MergeEntry(items, entry) ==
  LET i == ItemIndex(items, entry.id)
      item == [id |-> entry.id, url |-> entry.url, title |-> entry.title,
               author |-> entry.author, push |-> entry.push,
               sent |-> i # 0 /\ items[i].sent = TRUE,
               sentAt |-> IF i # 0 THEN items[i].sentAt ELSE Null]
  IN  IF i = 0 THEN Append(items, item) ELSE [items EXCEPT ![i] = item]

RECURSIVE mergeState(_, _)
mergeState(items, entries) ==
  IF entries = <<>> THEN items
  ELSE mergeState(MergeEntry(items, Head(entries)), Tail(entries))

----------------------------------------------------------------------------
(* The sent ledger: a Map from hash to [sentAt, identity], as the sequence  *)
(* of its entries [hash, sentAt, identity] in insertion order.             *)

SentIndex(m, hash) ==
  IF \E i \in 1..Len(m) : m[i].hash = hash
  THEN CHOOSE i \in 1..Len(m) : m[i].hash = hash
  ELSE 0

SentHas(m, hash) == SentIndex(m, hash) # 0

\* Mutant: the ledger is looked up under the hash of the link, not of the
\* identity (guid first).
MarkOneByLink(article, sentMap) ==
  IF article.sent \/ article.link = Null THEN article
  ELSE
    LET i == SentIndex(sentMap, hashIdentifier(Trim(article.link)))
    IN  IF i = 0 THEN article
        ELSE [article EXCEPT
                !.sent = TRUE,
                !.sentAt = IF @ = Null THEN sentMap[i].sentAt ELSE @]

\* Mutant: reconciliation marks the article without taking over sentAt.
MarkOneUnstamped(article, sentMap) ==
  IF article.sent THEN article
  ELSE
    LET identity == getArticleIdentity(article)
    IN  IF identity = Null THEN article
        ELSE IF SentHas(sentMap, hashIdentifier(identity))
             THEN [article EXCEPT !.sent = TRUE]
             ELSE article

MarkOne(article, sentMap) ==
  IF article.sent THEN article
  ELSE
    LET identity == getArticleIdentity(article)
    IN  IF identity = Null THEN article
        ELSE
          LET i == SentIndex(sentMap, hashIdentifier(identity))
          IN  IF i = 0 THEN article
              ELSE [article EXCEPT
                      !.sent = TRUE,
                      !.sentAt = IF @ = Null /\ sentMap[i].sentAt # Null
                                 THEN sentMap[i].sentAt ELSE @]

markPreviouslySentArticles(articles, sentMap) ==
  LET marked == [i \in 1..Len(articles) |-> MarkOne(articles[i], sentMap)]
  IN  [articles |-> marked,
       mutated |-> \E i \in 1..Len(articles) : marked[i].sent /\ ~articles[i].sent]

\* setSentEntry at time now: [map, changed].
setSentEntry(sentMap, article, now) ==
  LET identity == getArticleIdentity(article)
  IN  IF identity = Null THEN [map |-> sentMap, changed |-> FALSE]
      ELSE
        LET hash == hashIdentifier(identity)
            sentAt == IF article.sentAt # Null THEN article.sentAt
                      ELSE ToISOString(now)
            i == SentIndex(sentMap, hash)
            entry == [hash |-> hash, sentAt |-> sentAt, identity |-> identity]
        IN  IF i # 0 /\ sentMap[i].sentAt = sentAt
            THEN [map |-> sentMap, changed |-> FALSE]
            ELSE [map |-> IF i = 0 THEN Append(sentMap, entry)
                          ELSE [sentMap EXCEPT ![i] = entry],
                  changed |-> TRUE]

ValidEntry(entry) == IsISO(entry.sentAt)

\* Mutant: the entries sent last are the ones deleted.
PruneCapDropsNewest(m, cap) ==
  IF Len(m) > cap
  THEN LET Before(k, j) ==
             \/ m[k].sentAt[2] > m[j].sentAt[2]
             \/ m[k].sentAt[2] = m[j].sentAt[2] /\ k < j
           Place(j) == Cardinality({k \in 1..Len(m) : Before(k, j)}) + 1
           toDelete == {m[j].hash : j \in {i \in 1..Len(m) : Place(i) <= Len(m) - cap}}
           Kept(e) == e.hash \notin toDelete
       IN  [map |-> SelectSeq(m, Kept), mutated |-> TRUE]
  ELSE [map |-> m, mutated |-> FALSE]

\* The capacity rule of pruneSentMap with the cap as a parameter.  The sort
\* is stable, so an entry's place in the sorted array is one more than the
\* number of entries that are older, or as old and earlier in the map.
PruneCap(m, cap) ==
  IF Len(m) > cap
  THEN LET Before(k, j) ==
             \/ m[k].sentAt[2] < m[j].sentAt[2]
             \/ m[k].sentAt[2] = m[j].sentAt[2] /\ k < j
           Place(j) == Cardinality({k \in 1..Len(m) : Before(k, j)}) + 1
           toDelete == {m[j].hash : j \in {i \in 1..Len(m) : Place(i) <= Len(m) - cap}}
           Kept(e) == e.hash \notin toDelete
       IN  [map |-> SelectSeq(m, Kept), mutated |-> TRUE]
  ELSE [map |-> m, mutated |-> FALSE]

\* Mutant: entries sent more than a week before the newest entry are
\* deleted as well.
pruneSentMapAged(sentMap) ==
  LET valid == SelectSeq(sentMap, ValidEntry)
      Fresh(e) == \A x \in {valid[i] : i \in 1..Len(valid)} :
                    ~(e.sentAt[2] < x.sentAt[2] - 7 * DayTicks)
      fresh == SelectSeq(valid, Fresh)
      capped == PruneCap(fresh, MAX_SENT_MAP_SIZE)
  IN  [map |-> capped.map,
       mutated |-> (Len(fresh) # Len(sentMap)) \/ capped.mutated]

\* pruneSentMap of the FFXIV worker: invalid entries, then the capacity.
pruneSentMapFFXIV(sentMap) ==
  LET valid == SelectSeq(sentMap, ValidEntry)
      capped == PruneCap(valid, MAX_SENT_MAP_SIZE)
  IN  [map |-> capped.map,
       mutated |-> (Len(valid) # Len(sentMap)) \/ capped.mutated]

\* pruneSentMap of the GNN worker: invalid entries and those older than the TTL.
pruneSentMapGNN(sentMap, now) ==
  LET cutoffMs == now - SENT_MAP_TTL_GNN
      Fresh(e) == ValidEntry(e) /\ ~(e.sentAt[2] < cutoffMs)
      kept == SelectSeq(sentMap, Fresh)
  IN  [map |-> kept, mutated |-> Len(kept) # Len(sentMap)]

----------------------------------------------------------------------------
(* Feed parsing, bucket and ledger (de)serialisation, selection.           *)
(* A feed record is what the tag extraction yields for one <item>:          *)
(* [title, description, link, guid, thumbnail, pubDate], pubDate being the  *)
(* parsed time <<t>> or <<>> when parsePubDate returns null.  The variant   *)
(* is "ffxiv" (src/ffxiv-tw-news-api.js) or "gnn" (src/unnamed/part_000).   *)

Missing == <<>>

Stored(x) == <<x>>

\* The body of the loop over the feed records: acc is the list of items.
ParseRecord(acc, rec, v, existingArticles, targetDateKey) ==
  IF Len(acc) >= MAX_RSS_ITEMS THEN acc
  ELSE IF rec.pubDate = Null THEN acc
  ELSE IF v = "gnn" /\ getTaipeiDateKey(rec.pubDate[1]) # targetDateKey THEN acc
  ELSE IF rec.link # Null /\ \E i \in 1..Len(acc) : acc[i].link = rec.link THEN acc
  ELSE
    LET title == IF rec.title # Null THEN rec.title ELSE NoTitle
        i == ArticleIndex(existingArticles, rec.link)
        known == v = "ffxiv" /\ i # 0
    IN  Append(acc,
          [title |-> IF known /\ existingArticles[i].title # Null
                     THEN existingArticles[i].title ELSE title,
           description |-> IF known /\ existingArticles[i].description # Null
                           THEN existingArticles[i].description
                           ELSE rec.description,
           link |-> rec.link, guid |-> rec.guid, thumbnail |-> rec.thumbnail,
           publishedAt |-> ToISOString(rec.pubDate[1]),
           publishedAtMs |-> rec.pubDate])

RECURSIVE ParseFrom(_, _, _, _, _)
ParseFrom(acc, records, v, existingArticles, targetDateKey) ==
  IF records = <<>> THEN acc
  ELSE ParseFrom(ParseRecord(acc, Head(records), v, existingArticles, targetDateKey),
                 Tail(records), v, existingArticles, targetDateKey)

parseRSSItems(records, v, existingArticles, targetDateKey) ==
  ParseFrom(<<>>, records, v, existingArticles, targetDateKey)

\* The record loadDailyState builds for one stored entry.
LoadEntry(entry) ==
  LET publishedAtMs ==
        IF IsFinite(entry.publishedAtMs) THEN entry.publishedAtMs
        ELSE IF entry.publishedAt # Null THEN DateParse(entry.publishedAt)
        ELSE Null
  IN  [link |-> entry.link,
       title |-> IF entry.title # Null THEN entry.title ELSE NoTitle,
       description |-> entry.description,
       thumbnail |-> entry.thumbnail,
       guid |-> entry.guid,
       publishedAt |-> IF entry.publishedAt # Null THEN entry.publishedAt
                       ELSE IF TruthyNum(publishedAtMs)
                            THEN ToISOString(publishedAtMs[1])
                       ELSE Null,
       publishedAtMs |-> publishedAtMs,
       sent |-> entry.sent,
       sentAt |-> entry.sentAt]

HasLink(entry) == entry.link # Null

\* loadDailyState on the stored value raw (Missing or Stored(articles)).
loadDailyState(raw) ==
  IF raw = Missing THEN [exists |-> FALSE, articles |-> <<>>]
  ELSE LET kept == SelectSeq(raw[1], HasLink)
       IN  [exists |-> TRUE,
            articles |-> [i \in 1..Len(kept) |-> LoadEntry(kept[i])]]

HasSentAt(entry) == entry.sentAt # Null

\* loadSentMap on the stored value raw (Missing or Stored(entries)).
loadSentMap(raw) ==
  IF raw = Missing THEN <<>> ELSE SelectSeq(raw[1], HasSentAt)

\* A key that JSON.stringify and Object.entries treat as an array index:
\* a canonical decimal numeral (the eight digits stay below 2^32 - 1).
IsIndexKey(hash) == hash[1] # 0 /\ \A i \in 1..Len(hash) : hash[i] < 10

RECURSIVE HashLess(_, _)
HashLess(a, b) ==
  IF a = <<>> \/ b = <<>> THEN FALSE
  ELSE IF Head(a) # Head(b) THEN Head(a) < Head(b)
  ELSE HashLess(Tail(a), Tail(b))

RECURSIVE InsertByHash(_, _)
InsertByHash(sorted, e) ==
  IF sorted = <<>> THEN <<e>>
  ELSE IF HashLess(e.hash, Head(sorted).hash) THEN <<e>> \o sorted
  ELSE <<Head(sorted)>> \o InsertByHash(Tail(sorted), e)

RECURSIVE SortByHash(_, _)
SortByHash(sorted, rest) ==
  IF rest = <<>> THEN sorted
  ELSE SortByHash(InsertByHash(sorted, Head(rest)), Tail(rest))

IndexKeyed(e) == IsIndexKey(e.hash)

NotIndexKeyed(e) == ~IsIndexKey(e.hash)

\* The object saveSentMap serialises: index-like keys first, in ascending
\* order, then the other keys in insertion order.
SerializeSentMap(sentMap) ==
  SortByHash(<<>>, SelectSeq(sentMap, IndexKeyed)) \o SelectSeq(sentMap, NotIndexKeyed)

\* Mutant: the filter lets every article through.
UnsentOrSent(article) == TRUE

Unsent(article) == ~article.sent

\* Mutant: the newest sendLimit unsent articles are selected.
SelectNewest(articles, sendLimit) ==
  LET unsentQueue == SelectSeq(articles, Unsent)
      n == IF Len(unsentQueue) < sendLimit THEN Len(unsentQueue) ELSE sendLimit
  IN  [i \in 1..n |-> unsentQueue[Len(unsentQueue) - n + i].link]

\* unsentQueue.slice(0, sendLimit), as the links of the selected articles.
SelectToSend(articles, sendLimit) ==
  LET unsentQueue == SelectSeq(articles, Unsent)
      n == IF Len(unsentQueue) < sendLimit THEN Len(unsentQueue) ELSE sendLimit
  IN  [i \in 1..n |-> unsentQueue[i].link]

SendLimit(testMode) == IF testMode THEN 1 ELSE MAX_ITEMS_PER_SEND

----------------------------------------------------------------------------
(* The processRSS cycle as a state machine.                                *)
(*                                                                         *)
(* now       the wall clock, in ticks                                      *)
(* feed      the records the source serves, in document order              *)
(* kvDaily   KV: date key -> Missing or Stored(articles of the bucket)     *)
(* kvSent    KV: Missing or Stored(entries of the sent ledger)             *)
(* variant   which worker runs: "ffxiv" or "gnn"                           *)
(* pc, loc   per invocation: the await it is suspended at and its locals   *)
(* delivered the deliveries the sink accepted: <<link, invocation>>        *)
(*                                                                         *)
(* The bucket's metadata (sourceName, timezone, updatedAt, ...) is written  *)
(* and never read by any decision; it is left out.  An invocation runs      *)
(* synchronously between two awaits, so each action is one such stretch.    *)

VARIABLES now, feed, kvDaily, kvSent, kvLastRun, variant, pc, loc, delivered,
          input, output,
          news, snapshot, monSent, mpc, mloc, mdelivered

\* input and output are the argument and the result of a function that is
\* applied on its own (see the specifications of the pure functions).
\* kvLastRun is KV lastrun:bahamut-forum, Missing or Stored(ISO string); only
\* the Bahamut forum job (src/bahamut-forum.js) reads and writes it.
procVars == <<now, feed, kvDaily, kvSent, kvLastRun, variant, pc, loc, delivered>>

\* The world of the news monitor (src/ffxiv-tw-news-monitor.js):
\* news       the articles of the news data, Missing when the key is absent
\* snapshot   KV snapshot:ffxiv-tw-news, Missing or Stored(article ids)
\* monSent    KV sent:ffxiv-tw-news, Missing or Stored(entries)
\* mpc, mloc  the await processFFXIVNews is suspended at, and its locals
\* mdelivered the ids of the articles the webhook accepted
monVars == <<news, snapshot, monSent, mpc, mloc, mdelivered>>

vars == <<now, feed, kvDaily, kvSent, kvLastRun, variant, pc, loc, delivered,
          input, output,
          news, snapshot, monSent, mpc, mloc, mdelivered>>

\* Two invocations of the same worker may be in flight at once.
Cycles == {"c1", "c2"}

Variants == {"ffxiv", "gnn"}

StartClock == DayTicks + TAIPEI_OFFSET_MS

Days == 0..getTaipeiDateKey(MaxClock)

\* The options of the kv.put that saveDailyState ("daily") and saveSentMap
\* ("sent") issue in the worker v: the expirationTtl, or none.
PutOptions(key, v) ==
  [key |-> key,
   expirationTtl |-> IF key = "sent"
                     THEN (IF v = "ffxiv" THEN <<SENT_MAP_TTL_FFXIV>>
                           ELSE <<SENT_MAP_TTL_GNN>>)
                     ELSE (IF v = "ffxiv" THEN <<DAILY_STATE_TTL_FFXIV>> ELSE Null)]

\* The locals of an invocation; puts lists the kv.put calls it issued, and
\* is kept when the invocation has ended.
InitLoc ==
  [testMode |-> FALSE, startedAt |-> 0, dateKey |-> 0, exists |-> FALSE,
   state |-> <<>>,
   sentMap |-> <<>>, sentMapDirty |-> FALSE, articles |-> <<>>,
   hasChanges |-> FALSE, alreadySentUpdated |-> FALSE, toSend |-> <<>>,
   idx |-> 0, sendSuccess |-> FALSE, calls |-> <<>>, accepted |-> <<>>,
   puts |-> <<>>]

MonInitLoc ==
  [testMode |-> FALSE, currentIds |-> <<>>, allArticles |-> <<>>,
   previousIds |-> <<>>, isFirstRun |-> FALSE, toProcess |-> <<>>,
   sentMap |-> <<>>, sentLoaded |-> <<>>, idx |-> 0, calls |-> <<>>,
   failed |-> <<>>]

\* The monitor before its first run: news data of one article, nothing stored.
MonInit ==
  /\ news = <<<<[id |-> <<109, 49>>, date |-> 1]>>, <<>>>>
  /\ snapshot = <<>>
  /\ monSent = <<>>
  /\ mpc = "idle"
  /\ mloc = MonInitLoc
  /\ mdelivered = {}

\* The records of the feed: k-th article of the catalogue, published at t.
FeedRecord(k, t, guid) ==
  [title |-> <<116, 48 + k>>, description |-> <<100>>, link |-> <<96 + k>>,
   guid |-> guid, thumbnail |-> Null, pubDate |-> <<t>>]

\* The source publishes a at StartClock - 1, b at StartClock and c at
\* StartClock + 1, and lists the newest first; a carries a guid.
CatalogA == FeedRecord(1, StartClock - 1, <<103, 97>>)

CatalogB == FeedRecord(2, StartClock, Null)

CatalogC == FeedRecord(3, StartClock + 1, Null)

FeedAt(t) ==
  (IF t > StartClock THEN <<CatalogC>> ELSE <<>>) \o <<CatalogB, CatalogA>>

\* delivered holds <<link, c>> when the sink accepted the article from the
\* invocation c.
DeliveredBy(d, link) == {c \in Cycles : <<link, c>> \in d}

IsDelivered(d, link) == DeliveredBy(d, link) # {}

Init ==
  /\ now = StartClock
  /\ feed = FeedAt(StartClock)
  /\ kvDaily = [d \in Days |-> Missing]
  /\ kvSent = Missing
  /\ variant \in Variants
  /\ pc = [c \in Cycles |-> "idle"]
  /\ loc = [c \in Cycles |-> InitLoc]
  /\ delivered = {}
  /\ input = <<>>
  /\ output = <<>>
  /\ kvLastRun = Missing
  /\ MonInit

\* The clock advances; the source publishes what is due.
Tick ==
  /\ now < MaxClock
  /\ now' = now + 1
  /\ feed' = FeedAt(now + 1)
  /\ UNCHANGED <<kvDaily, kvSent, variant, pc, loc, delivered, input, output, kvLastRun, monVars>>

\* Mutant: a cycle starts only when no other invocation is in flight.
StartLocked(c, testMode) ==
  /\ \A d \in Cycles : pc[d] = "idle"
  /\ pc' = [pc EXCEPT ![c] = "loadDaily"]
  /\ loc' = [loc EXCEPT ![c] = [InitLoc EXCEPT !.testMode = testMode,
                                               !.dateKey = getTaipeiDateKey(now)]]
  /\ UNCHANGED <<now, feed, kvDaily, kvSent, variant, delivered, input, output, kvLastRun, monVars>>

\* processRSS(env, testMode) up to the first await (kv.get of the bucket).
Start(c, testMode) ==
  /\ pc[c] = "idle"
  /\ pc' = [pc EXCEPT ![c] = "loadDaily"]
  /\ loc' = [loc EXCEPT ![c] = [InitLoc EXCEPT !.testMode = testMode,
                                               !.dateKey = getTaipeiDateKey(now)]]
  /\ UNCHANGED <<now, feed, kvDaily, kvSent, variant, delivered, input, output, kvLastRun, monVars>>

\* kv.get of the daily bucket returns; loadSentMap awaits kv.get.
LoadDaily(c) ==
  /\ pc[c] = "loadDaily"
  /\ LET r == loadDailyState(kvDaily[loc[c].dateKey])
     IN  loc' = [loc EXCEPT ![c].state = r.articles, ![c].exists = r.exists]
  /\ pc' = [pc EXCEPT ![c] = "loadSent"]
  /\ UNCHANGED <<now, feed, kvDaily, kvSent, variant, delivered, input, output, kvLastRun, monVars>>

\* kv.get of the ledger returns; pruneSentMap; the feed is requested.
LoadSent(c) ==
  /\ pc[c] = "loadSent"
  /\ LET m == loadSentMap(kvSent)
         r == IF variant = "ffxiv" THEN pruneSentMapFFXIV(m)
              ELSE pruneSentMapGNN(m, now)
     IN  loc' = [loc EXCEPT ![c].sentMap = r.map, ![c].sentMapDirty = r.mutated]
  /\ pc' = [pc EXCEPT ![c] = "fetch"]
  /\ UNCHANGED <<now, feed, kvDaily, kvSent, variant, delivered, input, output, kvLastRun, monVars>>

\* The feed arrives: parse, merge, reconcile with the ledger, select.
Fetched(c) ==
  /\ pc[c] = "fetch"
  /\ LET l == loc[c]
         parsedItems == parseRSSItems(feed, variant, l.state, l.dateKey)
         merged == mergeArticles(l.state, parsedItems)
         marked == markPreviouslySentArticles(merged.articles, l.sentMap)
         toSend == SelectToSend(marked.articles, SendLimit(l.testMode))
     IN  /\ loc' = [loc EXCEPT ![c].articles = marked.articles,
                               ![c].hasChanges = merged.hasChanges,
                               ![c].alreadySentUpdated = marked.mutated,
                               ![c].toSend = toSend,
                               ![c].idx = 1]
         /\ pc' = [pc EXCEPT ![c] = IF toSend = <<>> THEN "saveDaily" ELSE "send"]
  /\ UNCHANGED <<now, feed, kvDaily, kvSent, variant, delivered, input, output, kvLastRun, monVars>>

\* Mutant: a cycle whose feed request fails still creates the day's bucket.
FetchNotOkCreatesBucket(c) ==
  /\ pc[c] = "fetch"
  /\ pc' = [pc EXCEPT ![c] = "idle"]
  /\ loc' = [loc EXCEPT ![c] = InitLoc]
  /\ kvDaily' = [kvDaily EXCEPT ![loc[c].dateKey] =
                    IF loc[c].exists THEN @ ELSE Stored(<<>>)]
  /\ UNCHANGED <<now, feed, kvSent, variant, delivered, input, output, kvLastRun, monVars>>

\* The feed request answers with a non-OK status, or fetch rejects and the
\* catch around the cycle logs it: the cycle ends here.
FetchNotOk(c) ==
  /\ pc[c] = "fetch"
  /\ pc' = [pc EXCEPT ![c] = "idle"]
  /\ loc' = [loc EXCEPT ![c] = InitLoc]
  /\ UNCHANGED <<now, feed, kvDaily, kvSent, variant, delivered, input, output, kvLastRun, monVars>>

\* The body of if (sent) for the article link, at time t: the article is
\* marked and entered in the ledger.
MarkSent(l, link, t) ==
  LET i == ArticleIndex(l.articles, link)
      article == [l.articles[i] EXCEPT !.sent = TRUE, !.sentAt = ToISOString(t)]
      r == setSentEntry(l.sentMap, article, t)
  IN  [l EXCEPT !.articles = [@ EXCEPT ![i] = article],
                !.sentMap = r.map,
                !.sentMapDirty = IF r.changed THEN TRUE ELSE @,
                !.sendSuccess = TRUE]

\* Mutant: the article is marked whatever the sink answered.
AfterSendMarksAlways(l, link, sent, t) ==
  [MarkSent(l, link, t) EXCEPT !.calls = Append(@, link),
                               !.accepted = IF sent THEN Append(@, link) ELSE @]

\* One pass of the delivery loop once sendToDiscord returned sent.  calls
\* and accepted record what the invocation handed to the sink and what the
\* sink accepted.
AfterSend(l, link, sent, t) ==
  [(IF sent THEN MarkSent(l, link, t) ELSE l)
     EXCEPT !.calls = Append(@, link),
            !.accepted = IF sent THEN Append(@, link) ELSE @]

\* sendToDiscord returns sent for toSend[idx]; the loop then sleeps.
SendResult(c, sent) ==
  /\ pc[c] = "send"
  /\ loc' = [loc EXCEPT ![c] = AfterSend(@, @.toSend[@.idx], sent, now)]
  /\ delivered' = IF sent THEN delivered \cup {<<loc[c].toSend[loc[c].idx], c>>}
                  ELSE delivered
  /\ pc' = [pc EXCEPT ![c] = "sleep"]
  /\ UNCHANGED <<now, feed, kvDaily, kvSent, variant, input, output, kvLastRun, monVars>>

\* The webhook request itself fails: sendToDiscord throws, and the catch
\* around the cycle ends it.
SendThrows(c) ==
  /\ pc[c] = "send"
  /\ pc' = [pc EXCEPT ![c] = "idle"]
  /\ loc' = [loc EXCEPT ![c] = InitLoc]
  /\ UNCHANGED <<now, feed, kvDaily, kvSent, variant, delivered, input, output, kvLastRun, monVars>>

\* sleep(1000) is over: next article, or the bucket is written.
Sleep(c) ==
  /\ pc[c] = "sleep"
  /\ loc' = [loc EXCEPT ![c].idx = @ + 1]
  /\ pc' = [pc EXCEPT ![c] = IF loc[c].idx < Len(loc[c].toSend)
                             THEN "send" ELSE "saveDaily"]
  /\ UNCHANGED <<now, feed, kvDaily, kvSent, variant, delivered, input, output, kvLastRun, monVars>>

\* Mutant: the bucket is written at the end of every cycle.
MustSaveAlways(l) == l.exists \/ ~l.exists

MustSaveDaily(l) ==
  l.hasChanges \/ l.sendSuccess \/ l.alreadySentUpdated \/ ~l.exists

\* saveDailyState when the bucket has to be written.
SaveDaily(c) ==
  /\ pc[c] = "saveDaily"
  /\ kvDaily' = IF MustSaveDaily(loc[c])
                THEN [kvDaily EXCEPT ![loc[c].dateKey] = Stored(loc[c].articles)]
                ELSE kvDaily
  /\ loc' = [loc EXCEPT ![c].puts = IF MustSaveDaily(loc[c])
                                     THEN Append(@, PutOptions("daily", variant))
                                     ELSE @]
  /\ pc' = [pc EXCEPT ![c] = "saveSent"]
  /\ UNCHANGED <<now, feed, kvSent, variant, delivered, input, output, kvLastRun, monVars>>

\* saveSentMap when the ledger is dirty; the cycle is over.
SaveSent(c) ==
  /\ pc[c] = "saveSent"
  /\ kvSent' = IF loc[c].sentMapDirty
               THEN Stored(SerializeSentMap(loc[c].sentMap))
               ELSE kvSent
  /\ pc' = [pc EXCEPT ![c] = "idle"]
  /\ loc' = [loc EXCEPT ![c] =
               [InitLoc EXCEPT !.puts = IF loc[c].sentMapDirty
                                        THEN Append(loc[c].puts, PutOptions("sent", variant))
                                        ELSE loc[c].puts]]
  /\ UNCHANGED <<now, feed, kvDaily, variant, delivered, input, output, kvLastRun, monVars>>

\* kv.put of the bucket rejects: saveDailyState catches and logs, and the
\* cycle goes on to saveSentMap.
SaveDailyFails(c) ==
  /\ pc[c] = "saveDaily"
  /\ MustSaveDaily(loc[c])
  /\ loc' = [loc EXCEPT ![c].puts = Append(@, PutOptions("daily", variant))]
  /\ pc' = [pc EXCEPT ![c] = "saveSent"]
  /\ UNCHANGED <<now, feed, kvDaily, kvSent, variant, delivered, input, output, kvLastRun, monVars>>

\* kv.put of the ledger rejects: saveSentMap catches and logs; the cycle is
\* over.
SaveSentFails(c) ==
  /\ pc[c] = "saveSent"
  /\ loc[c].sentMapDirty
  /\ pc' = [pc EXCEPT ![c] = "idle"]
  /\ loc' = [loc EXCEPT ![c] =
               [InitLoc EXCEPT !.puts = Append(loc[c].puts, PutOptions("sent", variant))]]
  /\ UNCHANGED <<now, feed, kvDaily, kvSent, variant, delivered, input, output, kvLastRun, monVars>>

\* The runtime ends the invocation at an await (wall-clock budget).
Crash(c) ==
  /\ pc[c] # "idle"
  /\ pc' = [pc EXCEPT ![c] = "idle"]
  /\ loc' = [loc EXCEPT ![c] = InitLoc]
  /\ UNCHANGED <<now, feed, kvDaily, kvSent, variant, delivered, input, output, kvLastRun, monVars>>

\* The steps of a cycle whose requests all answer.
Step(c) ==
  \/ \E testMode \in BOOLEAN : Start(c, testMode)
  \/ LoadDaily(c)
  \/ LoadSent(c)
  \/ Fetched(c)
  \/ \E sent \in BOOLEAN : SendResult(c, sent)
  \/ Sleep(c)
  \/ SaveDaily(c)
  \/ SaveSent(c)

\* The ways a cycle ends early.
Fault(c) ==
  \/ FetchNotOk(c)
  \/ SendThrows(c)
  \/ Crash(c)

\* Cycles that follow one another, over two days.
Next == Tick \/ Step("c1") \/ Fault("c1")

Spec == Init /\ [][Next]_vars

\* Cycles that follow one another and run to their end, over a store whose
\* writes may fail.
NextWriteFaults ==
  \/ Tick
  \/ Step("c1")
  \/ FetchNotOk("c1")
  \/ SendThrows("c1")
  \/ SaveDailyFails("c1")
  \/ SaveSentFails("c1")

SpecWriteFaults == Init /\ [][NextWriteFaults]_vars

\* The source stops listing its oldest item (the feed is newest first).
FeedRolls ==
  /\ feed # <<>>
  /\ feed' = SubSeq(feed, 1, Len(feed) - 1)
  /\ UNCHANGED <<now, kvDaily, kvSent, variant, pc, loc, delivered, input, output, kvLastRun, monVars>>

\* Cycles that follow one another within a day while items leave the feed.
NextRolling == FeedRolls \/ Step("c1") \/ Fault("c1")

SpecRolling == Init /\ [][NextRolling]_vars

\* Overlapping cycles within one day, none of them ended early.
NextOverlap == \E c \in Cycles : Step(c)

SpecOverlap == Init /\ [][NextOverlap]_vars

----------------------------------------------------------------------------
(* The merge functions applied on their own: Init draws the stored state    *)
(* and the fresh candidates, one action applies the function.               *)

TitleOf(k) == <<116, 48 + k>>

\* A stored article of the catalogue: link k, title n, published at t.
StoredArticle(k, n, t, sent) ==
  [link |-> <<96 + k>>, title |-> TitleOf(n), description |-> <<100>>,
   thumbnail |-> Null, guid |-> Null, publishedAt |-> ToISOString(t),
   publishedAtMs |-> <<t>>, sent |-> sent,
   sentAt |-> IF sent THEN ToISOString(StartClock) ELSE Null]

\* The stored versions of article k (published at StartClock - 2 + k), or none.
StoredChoices(k) ==
  {<<>>} \cup {<<StoredArticle(k, n, StartClock - 2 + k, sent)>> :
                 n \in 1..2, sent \in BOOLEAN}

\* Buckets as the workers write them: links unique, in publication order.
MergeExisting == {x \o y : x \in StoredChoices(1), y \in StoredChoices(2)}

MergeItemSet ==
  {[link |-> <<96 + k>>, title |-> title, description |-> <<100>>,
    thumbnail |-> Null, guid |-> Null, publishedAt |-> ToISOString(t),
    publishedAtMs |-> <<t>>] :
     k \in 1..2, title \in {Null, TitleOf(1), TitleOf(2)},
     t \in {StartClock - 1, StartClock}}

SeqsUpTo2(S) == {<<>>} \cup {<<x>> : x \in S} \cup {<<x, y>> : x \in S, y \in S}

PushValues == {10, 40}

PttItem(k, push, sent) ==
  [id |-> <<112, 48 + k>>, url |-> <<117, 48 + k>>, title |-> TitleOf(k),
   author |-> <<122>>, push |-> push, sent |-> sent,
   sentAt |-> IF sent THEN ToISOString(StartClock) ELSE Null]

PttItemChoices(k) ==
  {<<>>} \cup {<<PttItem(k, push, sent)>> : push \in PushValues, sent \in BOOLEAN}

PttItems == {x \o y : x \in PttItemChoices(1), y \in PttItemChoices(2)}

PttEntrySet ==
  {[id |-> <<112, 48 + k>>, url |-> <<117, 48 + k>>, title |-> TitleOf(n),
    author |-> <<122>>, push |-> push] :
     k \in 1..2, n \in 1..2, push \in PushValues}

InitMerge ==
  /\ now = StartClock
  /\ feed = <<>>
  /\ kvDaily = [d \in Days |-> Missing]
  /\ kvSent = Missing
  /\ variant = "ffxiv"
  /\ pc = [c \in Cycles |-> "idle"]
  /\ loc = [c \in Cycles |-> InitLoc]
  /\ delivered = {}
  /\ input \in
       {[kind |-> "rss", existing |-> e, candidates |-> n] :
          e \in MergeExisting, n \in SeqsUpTo2(MergeItemSet)}
       \cup
       {[kind |-> "ptt", existing |-> e, candidates |-> n] :
          e \in PttItems, n \in SeqsUpTo2(PttEntrySet)}
  /\ output = <<>>
  /\ kvLastRun = Missing
  /\ MonInit

ApplyMergeArticles ==
  /\ output = <<>>
  /\ input.kind = "rss"
  /\ output' = <<mergeArticles(input.existing, input.candidates)>>
  /\ UNCHANGED <<input, procVars, monVars>>

ApplyMergeState ==
  /\ output = <<>>
  /\ input.kind = "ptt"
  /\ output' = <<mergeState(input.existing, input.candidates)>>
  /\ UNCHANGED <<input, procVars, monVars>>

NextMerge == ApplyMergeArticles \/ ApplyMergeState

SpecMerge == InitMerge /\ [][NextMerge]_vars

\* mergeArticles again, with the same candidates, on the articles the first
\* merge returned.
ApplyMergeAgain ==
  /\ Len(output) = 1
  /\ input.kind = "rss"
  /\ output' = Append(output, mergeArticles(output[1].articles, input.candidates))
  /\ UNCHANGED <<input, procVars, monVars>>

NextMergeTwice == ApplyMergeArticles \/ ApplyMergeAgain

SpecMergeTwice == InitMerge /\ [][NextMergeTwice]_vars

\* The order of the merged list: stored articles and candidates for the
\* links a, b and c, with or without a guid (the guids y, x and w order the
\* articles the other way round than their links), published at one of two
\* times; a stored article may lack its time.  The existing list and the
\* candidates come in any order.
InitOrder ==
  /\ now = StartClock
  /\ feed = <<>>
  /\ kvDaily = [d \in Days |-> Missing]
  /\ kvSent = Missing
  /\ variant = "ffxiv"
  /\ pc = [c \in Cycles |-> "idle"]
  /\ loc = [c \in Cycles |-> InitLoc]
  /\ delivered = {}
  /\ LET Item(k, guid, t) ==
           [link |-> <<96 + k>>, title |-> TitleOf(k), description |-> <<100>>,
            thumbnail |-> Null, guid |-> guid,
            publishedAt |-> IF t = Null THEN Null ELSE ToISOString(t[1]),
            publishedAtMs |-> t]
         Guids(k) == {Null, <<122 - k>>}
         ItemsOf(k, times) == {Item(k, g, t) : g \in Guids(k), t \in times}
         Items(times) == ItemsOf(1, times) \cup ItemsOf(2, times) \cup ItemsOf(3, times)
         StoredOf(item) == [sent |-> FALSE, sentAt |-> Null] @@ item
         Candidates == Items({<<StartClock - 1>>, <<StartClock>>})
         Existing == {StoredOf(x) : x \in Items({Null, <<StartClock - 1>>, <<StartClock>>})}
         ExistingLists ==
           {<<>>} \cup {<<x>> : x \in Existing}
             \cup {p \in {<<x, y>> : x \in Existing, y \in Existing} :
                     p[1].link # p[2].link}
     IN  input \in {[kind |-> "rss", existing |-> e, candidates |-> n] :
                      e \in ExistingLists, n \in SeqsUpTo2(Candidates)}
  /\ output = <<>>
  /\ kvLastRun = Missing
  /\ MonInit

NextOrder == ApplyMergeArticles

SpecOrder == InitOrder /\ [][NextOrder]_vars

----------------------------------------------------------------------------
(* Backlogs: the source lists n articles of the day at once, newest first,  *)
(* and cycles follow one another with nothing ending them early.           *)

\* n articles; the first half was published at StartClock, the others one
\* tick earlier.
BatchFeed(n) ==
  [k \in 1..n |->
     FeedRecord(k, IF k <= n \div 2 THEN StartClock ELSE StartClock - 1, Null)]

InitBatch ==
  /\ now = StartClock
  /\ \E n \in 0..MaxBatch : feed = BatchFeed(n)
  /\ kvDaily = [d \in Days |-> Missing]
  /\ kvSent = Missing
  /\ variant \in Variants
  /\ pc = [c \in Cycles |-> "idle"]
  /\ loc = [c \in Cycles |-> InitLoc]
  /\ delivered = {}
  /\ input = <<>>
  /\ output = <<>>
  /\ kvLastRun = Missing
  /\ MonInit

NextBatch == Step("c1")

SpecBatch == InitBatch /\ [][NextBatch]_vars

----------------------------------------------------------------------------
(* Cycles that keep being triggered against a sink that accepts every       *)
(* delivery: no request fails, the cron trigger fires again and again, and *)
(* a started cycle runs to its end.                                        *)

StepAccepted(c) ==
  \/ \E testMode \in BOOLEAN : Start(c, testMode)
  \/ LoadDaily(c)
  \/ LoadSent(c)
  \/ Fetched(c)
  \/ SendResult(c, TRUE)
  \/ Sleep(c)
  \/ SaveDaily(c)
  \/ SaveSent(c)

PcValues == {"idle", "loadDaily", "loadSent", "fetch", "send", "sleep",
             "saveDaily", "saveSent"}

\* The invocation c moves on from the await it is suspended at.  Every step
\* of a started cycle is such a step, and at every await of a cycle one of
\* the steps of StepAccepted is possible.
Advance(c) ==
  /\ pc[c] # "idle"
  /\ \E p \in PcValues \ {pc[c]} : pc' = [pc EXCEPT ![c] = p]

NextLive == Tick \/ StepAccepted("c1")

\* The scheduled trigger fires again and again, and a started invocation
\* runs on until it ends.
SpecLive ==
  /\ Init
  /\ [][NextLive]_vars
  /\ SF_vars(Start("c1", FALSE))
  /\ WF_pc(Advance("c1"))

----------------------------------------------------------------------------
(* The replay mode: processAllRSS of src/ffxiv-tw-news-api.js, run by       *)
(* /triggerall.  It uses the fields articles, toSend, idx, calls and        *)
(* accepted of the invocation's locals; its positions are "replayFetch",    *)
(* "replaySend" and "replaySleep".                                          *)

\* parsedItems.sort by publishedAtMs, oldest first; the sort is stable.
RECURSIVE SortOldestFirst(_, _)
SortOldestFirst(sorted, rest) ==
  IF rest = <<>> THEN sorted
  ELSE LET e == Head(rest)
           k == Cardinality({i \in 1..Len(sorted) :
                               sorted[i].publishedAtMs[1] <= e.publishedAtMs[1]})
       IN  SortOldestFirst(SubSeq(sorted, 1, k) \o <<e>>
                             \o SubSeq(sorted, k + 1, Len(sorted)), Tail(rest))

\* processAllRSS(env) up to the request for the feed.
StartAll(c) ==
  /\ pc[c] = "idle"
  /\ variant = "ffxiv"
  /\ pc' = [pc EXCEPT ![c] = "replayFetch"]
  /\ loc' = [loc EXCEPT ![c] = InitLoc]
  /\ UNCHANGED <<now, feed, kvDaily, kvSent, variant, delivered, input, output, kvLastRun, monVars>>

\* The feed arrives: parse with no existing articles, sort, start the loop.
ReplayFetched(c) ==
  /\ pc[c] = "replayFetch"
  /\ LET parsedItems == parseRSSItems(feed, variant, <<>>, 0)
         sortedItems == SortOldestFirst(<<>>, parsedItems)
     IN  /\ loc' = [loc EXCEPT ![c].articles = sortedItems,
                               ![c].toSend = [i \in 1..Len(sortedItems) |->
                                                sortedItems[i].link],
                               ![c].idx = 1]
         /\ pc' = [pc EXCEPT ![c] = IF sortedItems = <<>> THEN "idle"
                                    ELSE "replaySend"]
  /\ UNCHANGED <<now, feed, kvDaily, kvSent, variant, delivered, input, output, kvLastRun, monVars>>

\* Mutant: an accepted replay delivery is recorded in the ledger.
ReplaySendRecords(c, sent) ==
  /\ pc[c] = "replaySend"
  /\ loc' = [loc EXCEPT ![c].calls = Append(@, loc[c].toSend[loc[c].idx]),
                        ![c].accepted = IF sent
                                        THEN Append(@, loc[c].toSend[loc[c].idx])
                                        ELSE @]
  /\ delivered' = IF sent THEN delivered \cup {<<loc[c].toSend[loc[c].idx], c>>}
                  ELSE delivered
  /\ kvSent' = IF sent
               THEN Stored(SerializeSentMap(
                      setSentEntry(loadSentMap(kvSent),
                                   NewArticle(loc[c].articles[loc[c].idx]),
                                   now).map))
               ELSE kvSent
  /\ pc' = [pc EXCEPT ![c] = "replaySleep"]
  /\ UNCHANGED <<now, feed, kvDaily, variant, input, output, kvLastRun, monVars>>

\* sendToDiscord returns sent for the item; the loop then sleeps.
ReplaySendResult(c, sent) ==
  /\ pc[c] = "replaySend"
  /\ loc' = [loc EXCEPT ![c].calls = Append(@, loc[c].toSend[loc[c].idx]),
                        ![c].accepted = IF sent
                                        THEN Append(@, loc[c].toSend[loc[c].idx])
                                        ELSE @]
  /\ delivered' = IF sent THEN delivered \cup {<<loc[c].toSend[loc[c].idx], c>>}
                  ELSE delivered
  /\ pc' = [pc EXCEPT ![c] = "replaySleep"]
  /\ UNCHANGED <<now, feed, kvDaily, kvSent, variant, input, output, kvLastRun, monVars>>

\* sleep(1000) is over: next item, or the replay is done.
ReplaySleep(c) ==
  /\ pc[c] = "replaySleep"
  /\ loc' = [loc EXCEPT ![c].idx = @ + 1]
  /\ pc' = [pc EXCEPT ![c] = IF loc[c].idx < Len(loc[c].toSend)
                             THEN "replaySend" ELSE "idle"]
  /\ UNCHANGED <<now, feed, kvDaily, kvSent, variant, delivered, input, output, kvLastRun, monVars>>

\* The feed answers non-OK, or a request throws and the catch around the
\* replay ends it.
ReplayEnds(c) ==
  /\ pc[c] \in {"replayFetch", "replaySend"}
  /\ pc' = [pc EXCEPT ![c] = "idle"]
  /\ UNCHANGED <<now, feed, kvDaily, kvSent, variant, loc, delivered, input, output, kvLastRun, monVars>>

Replay(c) ==
  \/ StartAll(c)
  \/ ReplayFetched(c)
  \/ \E sent \in BOOLEAN : ReplaySendResult(c, sent)
  \/ ReplaySleep(c)
  \/ ReplayEnds(c)

\* Scheduled cycles and replays of /triggerall, side by side.
NextReplay == Step("c1") \/ Replay("c2")

SpecReplay == Init /\ [][NextReplay]_vars

----------------------------------------------------------------------------
(* The news monitor: processFFXIVNews of src/ffxiv-tw-news-monitor.js.      *)
(* news is the categories object as the sequence of its categories, each    *)
(* the sequence of its articles [id, date].  Title, category and views of   *)
(* an article are written to the sent map and the webhook and never read.   *)

RECURSIVE collectAllArticles(_)
collectAllArticles(categories) ==
  IF categories = <<>> THEN <<>>
  ELSE Head(categories) \o collectAllArticles(Tail(categories))

IdsOf(articles) == [i \in 1..Len(articles) |-> articles[i].id]

Includes(ids, id) == \E i \in 1..Len(ids) : ids[i] = id

loadSnapshot(raw) == IF raw = Missing THEN <<>> ELSE raw[1]

\* Mutant: no run is a first run.
NeverFirstRun(previousIds) == FALSE

IsFirstRun(previousIds) == Len(previousIds) = 0

\* newArticles.sort((a, b) => new Date(a.date) - new Date(b.date)): stable.
RECURSIVE InsertByDate(_, _)
InsertByDate(sorted, a) ==
  IF sorted = <<>> THEN <<a>>
  ELSE IF a.date < Head(sorted).date THEN <<a>> \o sorted
  ELSE <<Head(sorted)>> \o InsertByDate(Tail(sorted), a)

RECURSIVE SortByDate(_, _)
SortByDate(sorted, rest) ==
  IF rest = <<>> THEN sorted
  ELSE SortByDate(InsertByDate(sorted, Head(rest)), Tail(rest))

\* Steps 4 and 5: the articles whose id the snapshot does not hold, oldest
\* first.
NewArticles(allArticles, previousIds) ==
  SortByDate(<<>>, SelectSeq(allArticles, LAMBDA a : ~Includes(previousIds, a.id)))

\* Step 6.
ArticlesToProcess(newArticles, testMode) ==
  IF testMode /\ Len(newArticles) > 0 THEN <<newArticles[Len(newArticles)]>>
  ELSE newArticles

monLoadSentMap(raw) == IF raw = Missing THEN <<>> ELSE raw[1]

\* sentMap.set(article.id, {sentAt, ...}) at time t.
MonSet(sentMap, id, t) ==
  LET entry == [id |-> id, sentAt |-> ToISOString(t)]
  IN  IF \E i \in 1..Len(sentMap) : sentMap[i].id = id
      THEN [i \in 1..Len(sentMap) |->
              IF sentMap[i].id = id THEN entry ELSE sentMap[i]]
      ELSE Append(sentMap, entry)

RECURSIVE MonSetAll(_, _, _)
MonSetAll(sentMap, articles, t) ==
  IF articles = <<>> THEN sentMap
  ELSE MonSetAll(MonSet(sentMap, Head(articles).id, t), Tail(articles), t)

\* pruneSentMap of the monitor with the cap as a parameter: the entries
\* after the first cap of the ones sorted newest first are deleted from the
\* map.  The sort is stable, so an entry's place in the sorted array is one
\* more than the number of entries that are newer, or as new and earlier in
\* the map.
monPruneCap(sentMap, cap) ==
  LET TimeAt(i) == DateParse(sentMap[i].sentAt)[1]
      Before(k, j) == TimeAt(k) > TimeAt(j) \/ (TimeAt(k) = TimeAt(j) /\ k < j)
      Place(j) == Cardinality({k \in 1..Len(sentMap) : Before(k, j)}) + 1
      toDelete == {sentMap[j].id : j \in {i \in 1..Len(sentMap) : Place(i) > cap}}
  IN  SelectSeq(sentMap, LAMBDA e : e.id \notin toDelete)

\* saveSentMap of the monitor: what is put under sent:ffxiv-tw-news.
monSaveSentMap(sentMap) ==
  IF Len(sentMap) > MAX_SENT_MAP_SIZE
  THEN monPruneCap(sentMap, MAX_SENT_MAP_SIZE)
  ELSE sentMap

\* The news data lists a part of the catalogue: article 1 in the first
\* category, articles 3 and 2 in the second.
MonArticle(k) == [id |-> <<109, 48 + k>>, date |-> k]

NewsChoices ==
  {<<x, y \o z>> : x \in {<<>>, <<MonArticle(1)>>},
                   y \in {<<>>, <<MonArticle(3)>>},
                   z \in {<<>>, <<MonArticle(2)>>}}

monUnchanged ==
  UNCHANGED <<now, feed, kvDaily, kvSent, kvLastRun, variant, pc, loc, delivered,
              input, output>>

\* The publisher rewrites the news data.
NewsUpdate ==
  /\ news' \in NewsChoices \ {news}
  /\ UNCHANGED <<snapshot, monSent, mpc, mloc, mdelivered>>
  /\ monUnchanged

\* processFFXIVNews(env, testMode) up to the read of the news data.
MStart(testMode) ==
  /\ mpc = "idle"
  /\ mpc' = "loadNews"
  /\ mloc' = [MonInitLoc EXCEPT !.testMode = testMode]
  /\ UNCHANGED <<news, snapshot, monSent, mdelivered>>
  /\ monUnchanged

\* Step 2: the news data arrives; the snapshot is requested.
MLoadNews ==
  /\ mpc = "loadNews"
  /\ LET allArticles == collectAllArticles(news)
     IN  mloc' = [mloc EXCEPT !.allArticles = allArticles,
                              !.currentIds = IdsOf(allArticles)]
  /\ mpc' = "loadSnapshot"
  /\ UNCHANGED <<news, snapshot, monSent, mdelivered>>
  /\ monUnchanged

\* Steps 3 to 6: the snapshot arrives; with nothing new the run returns.
MLoadSnapshot ==
  /\ mpc = "loadSnapshot"
  /\ LET previousIds == loadSnapshot(snapshot)
         newArticles == NewArticles(mloc.allArticles, previousIds)
     IN  IF Len(newArticles) = 0
         THEN mpc' = "idle" /\ mloc' = MonInitLoc
         ELSE /\ mpc' = "loadSent"
              /\ mloc' = [mloc EXCEPT
                            !.previousIds = previousIds,
                            !.isFirstRun = IsFirstRun(previousIds),
                            !.toProcess = ArticlesToProcess(newArticles, mloc.testMode)]
  /\ UNCHANGED <<news, snapshot, monSent, mdelivered>>
  /\ monUnchanged

\* Step 7: the sent map arrives.  On a first run the loop of step 8 has no
\* await: every article to process is recorded and nothing is sent.
MLoadSent ==
  /\ mpc = "loadSent"
  /\ LET sentMap == monLoadSentMap(monSent)
     IN  mloc' = [mloc EXCEPT
                    !.sentLoaded = IdsOf(sentMap),
                    !.sentMap = IF mloc.isFirstRun
                                THEN MonSetAll(sentMap, mloc.toProcess, now)
                                ELSE sentMap,
                    !.idx = 1]
  /\ mpc' = IF mloc.isFirstRun THEN "saveSent" ELSE "send"
  /\ UNCHANGED <<news, snapshot, monSent, mdelivered>>
  /\ monUnchanged

\* Step 8, one pass: sendToDiscord returned success for toProcess[idx]; after
\* a failure the loop goes straight on to the next article.
MSendResult(success) ==
  /\ mpc = "send"
  /\ LET id == mloc.toProcess[mloc.idx].id
     IN  /\ mloc' = [mloc EXCEPT
                       !.sentMap = IF success THEN MonSet(@, id, now) ELSE @,
                       !.calls = Append(@, id),
                       !.failed = IF success THEN @ ELSE Append(@, id),
                       !.idx = @ + 1]
         /\ mdelivered' = IF success THEN mdelivered \cup {id} ELSE mdelivered
  /\ mpc' = IF mloc.idx >= Len(mloc.toProcess) THEN "saveSent"
            ELSE IF success THEN "sleep" ELSE "send"
  /\ UNCHANGED <<news, snapshot, monSent>>
  /\ monUnchanged

\* sleep(1000), which step 8 awaits after a delivery that succeeded when
\* another article follows, is over.
MSleep ==
  /\ mpc = "sleep"
  /\ mpc' = "send"
  /\ UNCHANGED <<news, snapshot, monSent, mloc, mdelivered>>
  /\ monUnchanged

\* Step 9: saveSentMap.
MSaveSent ==
  /\ mpc = "saveSent"
  /\ monSent' = Stored(monSaveSentMap(mloc.sentMap))
  /\ mpc' = "saveSnapshot"
  /\ UNCHANGED <<news, snapshot, mloc, mdelivered>>
  /\ monUnchanged

\* Step 10: saveSnapshot on a first run and outside test mode; the run ends.
MSaveSnapshot ==
  /\ mpc = "saveSnapshot"
  /\ snapshot' = IF mloc.isFirstRun \/ ~mloc.testMode
                 THEN Stored(mloc.currentIds)
                 ELSE snapshot
  /\ mpc' = "idle"
  /\ mloc' = MonInitLoc
  /\ UNCHANGED <<news, monSent, mdelivered>>
  /\ monUnchanged

NextMonitor ==
  \/ NewsUpdate
  \/ \E testMode \in BOOLEAN : MStart(testMode)
  \/ MLoadNews
  \/ MLoadSnapshot
  \/ MLoadSent
  \/ \E success \in BOOLEAN : MSendResult(success)
  \/ MSleep
  \/ MSaveSent
  \/ MSaveSnapshot

SpecMonitor == Init /\ [][NextMonitor]_vars

\* Step 3 when env.RSS_CACHE.get rejects: loadSnapshot catches the error and
\* returns [], and steps 4 to 6 go on with an empty list of previous ids.
MLoadSnapshotFails ==
  /\ mpc = "loadSnapshot"
  /\ LET previousIds == <<>>
         newArticles == NewArticles(mloc.allArticles, previousIds)
     IN  IF Len(newArticles) = 0
         THEN mpc' = "idle" /\ mloc' = MonInitLoc
         ELSE /\ mpc' = "loadSent"
              /\ mloc' = [mloc EXCEPT
                            !.previousIds = previousIds,
                            !.isFirstRun = IsFirstRun(previousIds),
                            !.toProcess = ArticlesToProcess(newArticles, mloc.testMode)]
  /\ UNCHANGED <<news, snapshot, monSent, mdelivered>>
  /\ monUnchanged

\* Scheduled runs of the monitor with a KV store whose reads of the snapshot
\* may fail.
NextMonitorFaults ==
  \/ NewsUpdate
  \/ MStart(FALSE)
  \/ MLoadNews
  \/ MLoadSnapshot
  \/ MLoadSnapshotFails
  \/ MLoadSent
  \/ \E success \in BOOLEAN : MSendResult(success)
  \/ MSleep
  \/ MSaveSent
  \/ MSaveSnapshot

SpecMonitorFaults == Init /\ [][NextMonitorFaults]_vars

----------------------------------------------------------------------------
(* Pruning as a function: pruneSentMap of the FFXIV worker and of the news  *)
(* monitor, applied to a ledger.  An input is [kind, cap, ledger]; the      *)
(* ledgers are short ones with every arrangement of send times, pruned to   *)
(* a small capacity, and ledgers of about MAX_SENT_MAP_SIZE entries, pruned *)
(* by the functions as they are.                                            *)

\* The i-th entry of a ledger: of the worker's ledger (keyed by the hash of
\* the article's identity) or of the monitor's sent map (keyed by its id).
LedgerEntry(kind, i, sentAt) ==
  IF kind = "rss"
  THEN [hash |-> hashIdentifier(<<108, i>>), sentAt |-> sentAt, identity |-> <<108, i>>]
  ELSE [id |-> <<109, i>>, sentAt |-> sentAt]

\* The send times of a short ledger; <<120>> is a text Date.parse rejects.
SentAtChoices(kind) ==
  {ToISOString(t) : t \in 1..3} \cup (IF kind = "rss" THEN {<<120>>} ELSE {})

RECURSIVE ShortLedgers(_, _)
ShortLedgers(kind, n) ==
  IF n = 0 THEN {<<>>}
  ELSE LET shorter == ShortLedgers(kind, n - 1)
       IN  shorter \cup
           {Append(m, LedgerEntry(kind, Len(m) + 1, t)) :
              m \in {x \in shorter : Len(x) = n - 1}, t \in SentAtChoices(kind)}

\* A ledger of n entries: sent in the order of insertion (1), in the reverse
\* order (2), in a mixed order with equal times (3), or in the order of
\* insertion with an unparseable time in the second entry (4).
LongLedger(kind, n, p) ==
  [i \in 1..n |->
     LedgerEntry(kind, i,
       IF p = 1 THEN ToISOString(i)
       ELSE IF p = 2 THEN ToISOString(n + 1 - i)
       ELSE IF p = 3 THEN ToISOString(((i * 7) % 13) + 1)
       ELSE IF i = 2 THEN <<120>> ELSE ToISOString(i))]

PruneInputs(kind) ==
  {[kind |-> kind, cap |-> cap, ledger |-> m] :
     cap \in 1..MaxCap, m \in ShortLedgers(kind, MaxLedger)}
  \cup
  {[kind |-> kind, cap |-> MAX_SENT_MAP_SIZE, ledger |-> LongLedger(kind, n, p)] :
     n \in (MAX_SENT_MAP_SIZE - 1)..(MAX_SENT_MAP_SIZE + MaxOver),
     p \in 1..(IF kind = "rss" THEN 4 ELSE 3)}

InitPrune ==
  /\ now = SENT_MAP_TTL_FFXIV + MAX_SENT_MAP_SIZE + MaxOver
  /\ feed = <<>>
  /\ kvDaily = [d \in Days |-> Missing]
  /\ kvSent = Missing
  /\ variant = "ffxiv"
  /\ pc = [c \in Cycles |-> "idle"]
  /\ loc = [c \in Cycles |-> InitLoc]
  /\ delivered = {}
  /\ input \in PruneInputs("rss") \cup PruneInputs("monitor")
  /\ output = <<>>
  /\ kvLastRun = Missing
  /\ MonInit

\* pruneSentMap(sentMap): the map it leaves.
ApplyPrune ==
  /\ output = <<>>
  /\ output' =
       <<IF input.kind = "monitor" THEN monPruneCap(input.ledger, input.cap)
         ELSE IF input.cap = MAX_SENT_MAP_SIZE THEN pruneSentMapFFXIV(input.ledger).map
         ELSE PruneCap(SelectSeq(input.ledger, ValidEntry), input.cap).map>>
  /\ UNCHANGED <<input, procVars, monVars>>

NextPrune == ApplyPrune

SpecPrune == InitPrune /\ [][NextPrune]_vars

----------------------------------------------------------------------------
(* The FFXIV worker with a ledger that has grown to about its capacity: the *)
(* entries were sent one tick apart, the last of them one tick before the   *)
(* clock of the model starts.                                               *)

FullLedger(n) ==
  [i \in 1..n |-> LedgerEntry("rss", i, ToISOString(StartClock - 1 - n + i))]

InitFullLedger ==
  /\ now = StartClock
  /\ feed = FeedAt(StartClock)
  /\ kvDaily = [d \in Days |-> Missing]
  /\ \E n \in (MAX_SENT_MAP_SIZE - MaxOver)..MAX_SENT_MAP_SIZE :
       kvSent = Stored(SerializeSentMap(FullLedger(n)))
  /\ variant = "ffxiv"
  /\ pc = [c \in Cycles |-> "idle"]
  /\ loc = [c \in Cycles |-> InitLoc]
  /\ delivered = {}
  /\ input = <<>>
  /\ output = <<>>
  /\ kvLastRun = Missing
  /\ MonInit

NextFullLedger == Step("c1") \/ Fault("c1")

SpecFullLedger == InitFullLedger /\ [][NextFullLedger]_vars

----------------------------------------------------------------------------
(* Properties.                                                             *)

Range(s) == {s[i] : i \in 1..Len(s)}

Links(articles) == {articles[i].link : i \in 1..Len(articles)}

SentLinks(articles) == {articles[i].link : i \in {j \in 1..Len(articles) : articles[j].sent}}

\* The invocation has selected its batch.
Selected(c) == pc[c] \in {"send", "sleep", "saveDaily", "saveSent"}

BucketOf(d) == IF kvDaily[d] = Missing THEN <<>> ELSE kvDaily[d][1]

LedgerOf == IF kvSent = Missing THEN <<>> ELSE kvSent[1]

\* C1: no re-delivery across sequential cycles.  An article that the bucket a
\* cycle loads records with sent = true is never handed to the sink by that
\* cycle, whatever the feed lists.
C1_NoRedelivery ==
  \A c \in Cycles : SentLinks(loc[c].state) \cap Range(loc[c].calls) = {}

\* A cycle loaded a bucket in which an article is sent, the feed still lists
\* that article, and the cycle has delivered another article.
C1_Witness ==
  /\ pc["c1"] = "saveDaily"
  /\ loc["c1"].accepted # <<>>
  /\ \E r \in Range(feed) : r.link \in SentLinks(loc["c1"].state)

\* C2: ledger memory survives bucket rotation.  When a cycle has selected,
\* every article whose identity hash the ledger it loaded holds is marked
\* sent, has a sentAt (the ledger's when the bucket gave none), and is not
\* handed to the sink.  The entries a cycle adds itself are those of the
\* articles it delivered.
C2_LedgerSurvivesRotation ==
  \A c \in Cycles :
    Selected(c) =>
      \A i \in 1..Len(loc[c].articles) :
        LET a == loc[c].articles[i]
            id == getArticleIdentity(a)
            k == IF id = Null THEN 0 ELSE SentIndex(loc[c].sentMap, hashIdentifier(id))
            j == ArticleIndex(loc[c].state, a.link)
        IN  (k # 0 /\ a.link \notin Range(loc[c].accepted)) =>
              /\ a.sent
              /\ a.sentAt # Null
              /\ a.link \notin Range(loc[c].calls)
              /\ (j = 0 => a.sentAt = loc[c].sentMap[k].sentAt)

\* On day 2 the bucket did not exist; the cycle wrote it with an article
\* marked sent that it never handed to the sink, and that article is sent
\* in the bucket of day 1 and recorded in the ledger.
C2_Witness ==
  /\ pc["c1"] = "saveSent"
  /\ loc["c1"].dateKey = getTaipeiDateKey(StartClock) + 1
  /\ ~loc["c1"].exists
  /\ \E i \in 1..Len(BucketOf(loc["c1"].dateKey)) :
       LET a == BucketOf(loc["c1"].dateKey)[i]
       IN  /\ a.sent
           /\ a.link \in SentLinks(BucketOf(getTaipeiDateKey(StartClock)))
           /\ a.link \notin Range(loc["c1"].calls)
           /\ SentHas(LedgerOf, hashIdentifier(getArticleIdentity(a)))

\* C3: merge never resets delivery state.  Every article of the existing
\* state is in the merged state with the sent and sentAt it had, for the
\* RSS merge (mergeArticles) and for the PTT merge (mergeState).
C3_MergeKeepsDelivery ==
  output # <<>> =>
    IF input.kind = "rss"
    THEN \A i \in 1..Len(input.existing) :
           LET e == input.existing[i]
               j == ArticleIndex(output[1].articles, e.link)
           IN  /\ j # 0
               /\ output[1].articles[j].sent = e.sent
               /\ output[1].articles[j].sentAt = e.sentAt
    ELSE \A i \in 1..Len(input.existing) :
           LET e == input.existing[i]
               j == ItemIndex(output[1], e.id)
           IN  /\ j # 0
               /\ output[1][j].sent = e.sent
               /\ output[1][j].sentAt = e.sentAt

\* A delivered article is listed again with another title and another
\* publication time: the merge reports a change and rewrote the title.
C3_Witness ==
  /\ output # <<>>
  /\ input.kind = "rss"
  /\ output[1].hasChanges
  /\ \E i \in 1..Len(input.existing) :
       LET e == input.existing[i]
           j == ArticleIndex(output[1].articles, e.link)
       IN  /\ e.sent
           /\ output[1].articles[j].title # e.title
           /\ output[1].articles[j].publishedAt # e.publishedAt

\* The unsent articles among the invocation's merged articles.
UnsentLinks(articles) == Links(articles) \ SentLinks(articles)

PublishedAtMsOf(articles, link) == articles[ArticleIndex(articles, link)].publishedAtMs[1]

CatalogLinks == {CatalogA.link, CatalogB.link, CatalogC.link}

\* The article is in some daily bucket of the store, unsent.
PendingInStore(link) == \E d \in Days : link \in UnsentLinks(BucketOf(d))

\* C5: eventual delivery of a backlog.  While cycles keep being triggered
\* and the sink accepts every delivery, an article that a bucket of the
\* store holds unsent is eventually delivered, also when the daily bucket
\* rotates to a new date.
C5_EventualDelivery ==
  \A link \in CatalogLinks :
    PendingInStore(link) ~> IsDelivered(delivered, link)

\* The articles the sink rejected in the invocation's cycle.
Rejected(l) == Range(l.calls) \ Range(l.accepted)

ArticleOf(articles, link) == articles[ArticleIndex(articles, link)]

IsPrefix(s, t) == Len(s) <= Len(t) /\ s = SubSeq(t, 1, Len(s))

C7_ThrowIsRejection ==
  [][\A c \in Cycles : SendThrows(c) => SendResult(c, FALSE)]_vars

\* The article is recorded as sent in durable state: in a bucket or in the
\* ledger.
DurablySent(daily, ledger, a) ==
  \/ \E d \in Days : daily[d] # Missing /\ a.link \in SentLinks(daily[d][1])
  \/ ledger # Missing /\ SentHas(ledger[1], hashIdentifier(getArticleIdentity(a)))

\* C8: crash tolerance of the delivery loop.  When an invocation is ended
\* during its delivery loop, the articles it delivered are recorded as sent
\* in durable state.
C8_CrashKeepsMarks ==
  [][\A c \in Cycles :
       (Crash(c) /\ pc[c] \in {"send", "sleep"}) =>
         \A i \in 1..Len(loc[c].articles) :
           loc[c].articles[i].link \in Range(loc[c].accepted) =>
             DurablySent(kvDaily', kvSent', loc[c].articles[i])]_vars

\* The ledger as the invocation loaded it: every accepted delivery appended
\* one entry.
LoadedLedger(l) == SubSeq(l.sentMap, 1, Len(l.sentMap) - Len(l.accepted))

\* C9: overlapping cycles are not excluded by any lock.  An idle invocation
\* can start whatever the other one is doing; two invocations that loaded
\* the same bucket and the same ledger selected the same articles, and each
\* hands its selection to the sink.
C9_OverlapNotExcluded ==
  /\ \A c \in Cycles : pc[c] = "idle" => ENABLED Start(c, FALSE)
  /\ (/\ Selected("c1") /\ Selected("c2")
      /\ loc["c1"].testMode = loc["c2"].testMode
      /\ loc["c1"].state = loc["c2"].state
      /\ LoadedLedger(loc["c1"]) = LoadedLedger(loc["c2"]))
       => loc["c1"].toSend = loc["c2"].toSend
  /\ \A c \in Cycles :
       /\ Selected(c) => IsPrefix(loc[c].calls, loc[c].toSend)
       /\ pc[c] \in {"saveDaily", "saveSent"} => loc[c].calls = loc[c].toSend

\* Both invocations loaded before either wrote, and the sink accepted the
\* same article from each of them.
C9_Witness ==
  /\ Selected("c1") /\ Selected("c2")
  /\ loc["c1"].state = <<>> /\ loc["c2"].state = <<>>
  /\ \E x \in Range(loc["c1"].accepted) \cap Range(loc["c2"].accepted) :
       DeliveredBy(delivered, x) = Cycles

LedgerHashes == {LedgerOf[i].hash : i \in 1..Len(LedgerOf)}

\* C10: durable delivery marks are never lost through another cycle's
\* write.  With no bucket expiring and the ledger below its capacity, no step
\* takes a sent mark out of a bucket or an entry out of the ledger.
C10_MarksNeverLost ==
  [][/\ \A d \in Days : SentLinks(BucketOf(d)) \subseteq SentLinks(BucketOf(d))'
     /\ LedgerHashes \subseteq LedgerHashes']_vars

\* The ids the stored sent map of the monitor holds.
MonSentIds(raw) == Range(IdsOf(monLoadSentMap(raw)))

\* C11: in the news monitor an article that was delivered and is recorded
\* in the stored sent map is never delivered again: no later delivery of it
\* is accepted, in a test trigger or a scheduled run, whatever the news data
\* listed in between.
C11_MonitorNoRedelivery ==
  [][MSendResult(TRUE) =>
       ~(/\ mloc.toProcess[mloc.idx].id \in mdelivered
         /\ mloc.toProcess[mloc.idx].id \in MonSentIds(monSent))]_vars

\* C12: an article whose delivery failed in a scheduled cycle stays pending:
\* when that cycle ends, neither the snapshot nor the sent map records it.
C12_FailedStaysPending ==
  [][(MSaveSnapshot /\ ~mloc.testMode /\ ~mloc.isFirstRun) =>
       \A id \in Range(mloc.failed) :
         /\ id \notin Range(loadSnapshot(snapshot'))
         /\ id \notin MonSentIds(monSent')]_vars

\* The run has loaded the snapshot and found something new.
MonLoaded == mpc \in {"loadSent", "send", "saveSent", "saveSnapshot"}

\* C13: first run of the monitor.  A run that found no snapshot makes no
\* delivery call, and when it ends the snapshot holds every article id it
\* read; no run calls the sink for an article of the snapshot it loaded.
C13_FirstRunRecordsOnly ==
  /\ [](MonLoaded =>
          /\ mloc.previousIds = <<>> => mloc.calls = <<>>
          /\ \A id \in Range(mloc.calls) : id \notin Range(mloc.previousIds))
  /\ [][(MSaveSnapshot /\ mloc.previousIds = <<>>) =>
          Range(mloc.currentIds) \subseteq Range(loadSnapshot(snapshot'))]_vars

\* A first run over two or more articles is about to write the snapshot: it
\* made no call and the sent map it wrote records what it processed.
C13_Witness ==
  /\ mpc = "saveSnapshot"
  /\ snapshot = Missing
  /\ mloc.previousIds = <<>>
  /\ Len(mloc.currentIds) >= 2
  /\ mloc.calls = <<>>
  /\ Range(IdsOf(mloc.toProcess)) \subseteq MonSentIds(monSent)

\* C15: a test-mode run records as handled, in the snapshot and in the sent
\* map, nothing but the single article it processed, also when it is the
\* first run.
C15_TestModeMarksOne ==
  [][(MSaveSnapshot /\ mloc.testMode) =>
       LET handled == (Range(loadSnapshot(snapshot')) \ Range(mloc.previousIds))
                        \cup (MonSentIds(monSent') \ Range(mloc.sentLoaded))
       IN  /\ Len(mloc.toProcess) = 1
           /\ handled \subseteq Range(IdsOf(mloc.toProcess))]_vars

\* C14: test mode delivers the newest article.  A test-mode run of processRSS
\* makes at most one delivery call, and the article it hands to the sink is
\* the newest candidate: no article that was unsent at the selection has a
\* greater publishedAt than the one called.
C14_TestModeNewest ==
  \A c \in Cycles :
    LET l == loc[c]
        candidates == UnsentLinks(l.articles) \cup Range(l.calls)
    IN  (l.testMode /\ Selected(c)) =>
          /\ Len(l.calls) <= 1
          /\ \A x \in Range(l.calls) : \A y \in candidates :
               PublishedAtMsOf(l.articles, y) <= PublishedAtMsOf(l.articles, x)

\* C16: the replay mode ignores all prior state and persists none.  No step
\* of processAllRSS changes a daily bucket or the ledger, whatever its
\* deliveries return, and what it sends depends on the feed alone: the items
\* it selects are all the items of the feed, oldest first, whether or not
\* the bucket or the ledger holds them as sent.
C16_ReplayTouchesNoState ==
  [][Replay("c2") =>
       /\ kvDaily' = kvDaily
       /\ kvSent' = kvSent
       /\ ReplayFetched("c2") =>
            loc'["c2"].articles =
              SortOldestFirst(<<>>, parseRSSItems(feed, "ffxiv", <<>>, 0))]_vars

\* A replay has delivered an article that the ledger holds as sent, with
\* bucket and ledger written by an earlier cycle.
C16_Witness ==
  /\ pc["c2"] = "replaySleep"
  /\ loc["c2"].idx = Len(loc["c2"].toSend)
  /\ Len(loc["c2"].accepted) >= 2
  /\ pc["c1"] = "idle"
  /\ Len(LedgerOf) >= 2
  /\ \A x \in Range(loc["c2"].accepted) :
       x \in SentLinks(BucketOf(getTaipeiDateKey(now)))

\* The valid entries of the ledger given to pruneSentMap, and the times of
\* entries as numbers.
ValidInput == SelectSeq(input.ledger, ValidEntry)

TimeOf(e) == e.sentAt[2]

\* C17: capacity pruning.  pruneSentMap applied to a ledger of more valid
\* entries than the capacity leaves exactly as many entries as the capacity,
\* all of them entries of the ledger, and every entry it keeps was sent at
\* or after the time of every entry it removes; a ledger of valid entries
\* within the capacity is left unchanged.
C17_CapacityPruning ==
  output # <<>> =>
    LET kept == Range(output[1])
        removed == Range(ValidInput) \ kept
    IN  /\ kept \subseteq Range(ValidInput)
        /\ Len(ValidInput) > input.cap =>
             /\ Len(output[1]) = input.cap
             /\ \A k \in kept : \A r \in removed : TimeOf(k) >= TimeOf(r)
        /\ Len(ValidInput) <= input.cap => output[1] = ValidInput

\* A ledger of MAX_SENT_MAP_SIZE + 2 valid entries, the oldest of them
\* inserted last, was pruned by the worker's function to MAX_SENT_MAP_SIZE.
C17_Witness ==
  /\ output # <<>>
  /\ input.kind = "rss"
  /\ Len(ValidInput) = MAX_SENT_MAP_SIZE + 2
  /\ TimeOf(input.ledger[Len(input.ledger)]) = 1
  /\ Len(output[1]) = MAX_SENT_MAP_SIZE

\* C18: the persisted ledger is bounded.  Every ledger the FFXIV worker
\* writes to the store holds at most MAX_SENT_MAP_SIZE entries.
C18_StoredLedgerBounded ==
  [][\A c \in Cycles :
       (SaveSent(c) /\ kvSent' # kvSent) => Len(kvSent'[1]) <= MAX_SENT_MAP_SIZE]_vars

\* C19: ledger pruning in the FFXIV worker is not time-based.  pruneSentMap
\* removes an entry with a parseable sentAt only when the ledger holds more
\* valid entries than its capacity; it then removes as many as are over the
\* capacity, and none of them was sent later than an entry it keeps.  How
\* long ago an entry was sent plays no part.
C19_NotTimeBased ==
  (output # <<>> /\ input.kind = "rss") =>
    LET removed == Range(ValidInput) \ Range(output[1])
        over == Len(ValidInput) - input.cap
    IN  /\ Cardinality(removed) = IF over > 0 THEN over ELSE 0
        /\ \A r \in removed : \A k \in Range(output[1]) : TimeOf(r) <= TimeOf(k)

\* The worker's function was applied to a ledger at its capacity whose
\* oldest entry was sent more than 365 days before, and the entry is kept.
C19_Witness ==
  /\ output # <<>>
  /\ input.kind = "rss"
  /\ input.cap = MAX_SENT_MAP_SIZE
  /\ Len(ValidInput) = MAX_SENT_MAP_SIZE
  /\ \E e \in Range(output[1]) : TimeOf(e) < now - SENT_MAP_TTL_FFXIV

\* C20: idempotence of merge.  Merging the candidates into the result of a
\* first merge of the same candidates reports hasChanges = false and returns
\* the same articles in the same order as the first merge.
C20_MergeIdempotent ==
  Len(output) = 2 =>
    /\ ~output[2].hasChanges
    /\ output[2].articles = output[1].articles

\* C20, amended: idempotence of merge for candidate lists that name no link
\* twice, as parseRSSItems builds them.  Merging such candidates into the
\* result of a first merge of the same candidates reports hasChanges = false
\* and returns the same articles in the same order as the first merge.
C20_MergeIdempotentDistinct ==
  (/\ Len(output) = 2
   /\ \A i, j \in 1..Len(input.candidates) :
        i # j => input.candidates[i].link # input.candidates[j].link) =>
    /\ ~output[2].hasChanges
    /\ output[2].articles = output[1].articles

\* Two candidates with different links were merged twice into a list that
\* held one of them with another title; the first merge changed the list.
C20_Witness ==
  /\ Len(output) = 2
  /\ Len(input.candidates) = 2
  /\ input.candidates[1].link # input.candidates[2].link
  /\ input.existing # <<>>
  /\ output[1].hasChanges
  /\ Len(output[1].articles) > Len(input.existing)
  /\ \E i \in 1..Len(input.existing) : \E j \in 1..Len(output[1].articles) :
       /\ input.existing[i].link = output[1].articles[j].link
       /\ input.existing[i].title # output[1].articles[j].title

\* C21: hasChanges is exact.  mergeArticles reports hasChanges = true if and
\* only if some candidate with a link is absent from the existing state or
\* carries a title, description, thumbnail, guid or publishedAt that differs
\* from the one stored for its link; candidates that only repeat what is
\* stored leave hasChanges = false.
C21_HasChangesExact ==
  (output # <<>> /\ input.kind = "rss") =>
    LET Observed(item, f) == item[f] # Null
        News(item) ==
          /\ item.link # Null
          /\ LET i == ArticleIndex(input.existing, item.link)
             IN  \/ i = 0
                 \/ \E f \in {"title", "description", "thumbnail", "guid", "publishedAt"} :
                      Observed(item, f) /\ item[f] # input.existing[i][f]
    IN  output[1].hasChanges <=>
          \E k \in 1..Len(input.candidates) : News(input.candidates[k])

\* Two candidates that repeat two stored articles were merged, and
\* hasChanges is false.
C21_Witness ==
  /\ output # <<>>
  /\ input.kind = "rss"
  /\ Len(input.candidates) = 2
  /\ input.candidates[1].link # input.candidates[2].link
  /\ \A k \in 1..2 :
       /\ ArticleIndex(input.existing, input.candidates[k].link) # 0
       /\ input.candidates[k].title # Null
  /\ ~output[1].hasChanges

\* C22: deterministic total order of the merge output.  The merged articles
\* are in ascending order of publishedAtMs, an article without a finite
\* publishedAtMs after every article that has one, and two articles with
\* equal publishedAtMs in ascending order of their identity strings.
C22_TotalOrder ==
  (output # <<>> /\ input.kind = "rss") =>
    \A i, j \in 1..Len(output[1].articles) :
      i < j =>
        LET a == output[1].articles[i]
            b == output[1].articles[j]
        IN  IF IsFinite(a.publishedAtMs) /\ IsFinite(b.publishedAtMs)
            THEN \/ a.publishedAtMs[1] < b.publishedAtMs[1]
                 \/ /\ a.publishedAtMs = b.publishedAtMs
                    /\ StrLess(getArticleIdentity(a), getArticleIdentity(b))
            ELSE ~IsFinite(b.publishedAtMs)

\* C23: invariant of tracked items.  In every state the RSS workers reach
\* from an empty store, an article with sent = true has a sentAt: in the
\* bucket a cycle loaded, in its merged list, and in every stored bucket,
\* whether a delivery or the reconciliation with the ledger marked it.
C23_SentHasSentAt ==
  LET Stamped(articles) ==
        \A i \in 1..Len(articles) : articles[i].sent => articles[i].sentAt # Null
  IN  /\ \A c \in Cycles : Stamped(loc[c].state) /\ Stamped(loc[c].articles)
      /\ \A d \in Days : Stamped(BucketOf(d))

\* A cycle wrote a bucket with an article that the reconciliation with the
\* ledger marked (the cycle made no delivery call for it), and the article
\* carries the send time of an earlier day.
C23_Witness ==
  \E d \in Days : \E i \in 1..Len(BucketOf(d)) :
    LET a == BucketOf(d)[i]
    IN  /\ a.sent
        /\ IsISO(a.sentAt)
        /\ getTaipeiDateKey(a.sentAt[2]) < d

\* C24: a cycle never drops a tracked article from its bucket.  The links of
\* the merged list are the links of the loaded bucket together with the
\* links of the candidates, and the bucket a cycle writes holds every
\* article the cycle loaded, a sent one still as sent.
C24_NoArticleDropped ==
  [][\A c \in Cycles :
       /\ Fetched(c) =>
            Links(loc'[c].articles) =
              Links(loc[c].state)
                \cup Links(parseRSSItems(feed, variant, loc[c].state, loc[c].dateKey))
       /\ (SaveDaily(c) /\ kvDaily' # kvDaily) =>
            /\ Links(loc[c].state) \subseteq Links(BucketOf(loc[c].dateKey)')
            /\ SentLinks(loc[c].state) \subseteq SentLinks(BucketOf(loc[c].dateKey)')]_vars

\* A cycle has written a bucket that holds an unsent and a sent article
\* which the feed no longer lists.
C24_Witness ==
  /\ pc["c1"] = "saveSent"
  /\ feed = <<>>
  /\ loc["c1"].state # <<>>
  /\ BucketOf(loc["c1"].dateKey) = loc["c1"].articles
  /\ SentLinks(loc["c1"].state) # {}
  /\ UnsentLinks(loc["c1"].state) # {}
  /\ Links(loc["c1"].state) = Links(BucketOf(loc["c1"].dateKey))

\* C25: write minimisation.  A cycle that comes to the end of its delivery
\* loop issues the put of its bucket if and only if the merge added an
\* article or changed a field of one, or the sink accepted a delivery, or the
\* reconciliation with the ledger marked an article, or the store held no
\* bucket for the day; and no other step writes a bucket.
C25_WriteMinimisation ==
  [][/\ kvDaily' # kvDaily => \E c \in Cycles : SaveDaily(c)
     /\ \A c \in Cycles :
          SaveDaily(c) =>
            LET l == loc[c]
                Loaded(a) == ArticleOf(l.state, a.link)
                mergeChanged ==
                  \E i \in 1..Len(l.articles) :
                    LET a == l.articles[i]
                    IN  \/ a.link \notin Links(l.state)
                        \/ \E f \in {"title", "description", "thumbnail", "guid",
                                     "publishedAt"} : a[f] # Loaded(a)[f]
                delivered1 == l.accepted # <<>>
                reconciled ==
                  \E i \in 1..Len(l.articles) :
                    LET a == l.articles[i]
                    IN  /\ a.sent
                        /\ a.link \notin Range(l.accepted)
                        /\ a.link \notin SentLinks(l.state)
                absent == kvDaily[l.dateKey] = Missing
            IN  (Len(loc'[c].puts) = Len(l.puts) + 1) <=>
                  (mergeChanged \/ delivered1 \/ reconciled \/ absent)]_vars

\* A cycle found its bucket in the store, the feed brought nothing new, no
\* article was pending and none was marked: the cycle is at its end and has
\* issued no put.
C25_Witness ==
  /\ pc["c1"] = "saveSent"
  /\ loc["c1"].exists
  /\ loc["c1"].articles # <<>>
  /\ loc["c1"].calls = <<>>
  /\ loc["c1"].puts = <<>>
  /\ ~loc["c1"].sentMapDirty

\* C26: every durable write carries a bounded expiration.  Each kv.put of a
\* daily bucket and each kv.put of a ledger that an invocation issues has an
\* expirationTtl.
C26_PutsExpire ==
  \A c \in Cycles : \A i \in 1..Len(loc[c].puts) :
    loc[c].puts[i].expirationTtl # Null

----------------------------------------------------------------------------
(* loadDailyState as a function of the text stored under the bucket key.   *)
(* The text is one of:                                                     *)
(*   "missing"  the key is absent (kv.get gives null)                      *)
(*   "garbage"  text that JSON.parse rejects                               *)
(*   "null"     the JSON text null: data.articles is a TypeError           *)
(*   "object"   a JSON value other than null whose articles member is not  *)
(*              an array, such as {} or {"articles":"x"} or 5              *)
(*   "bucket"   an object whose articles member is the array given         *)

StoredTexts == {"missing", "garbage", "null", "object", "bucket"}

loadDailyStateFrom(blob) ==
  IF blob.json = "missing" THEN loadDailyState(Missing)
  ELSE IF blob.json \in {"garbage", "null"}
       THEN [exists |-> FALSE, articles |-> <<>>]
  ELSE IF blob.json = "object" THEN loadDailyState(Stored(<<>>))
  ELSE loadDailyState(Stored(blob.articles))

InitLoad ==
  LET Entries ==
        {[StoredArticle(1, n, StartClock, sent) EXCEPT !.link = link] :
           n \in 1..2, sent \in BOOLEAN, link \in {Null, <<97>>}}
  IN  /\ now = StartClock
      /\ feed = <<>>
      /\ kvDaily = [d \in Days |-> Missing]
      /\ kvSent = Missing
      /\ variant = "ffxiv"
      /\ pc = [c \in Cycles |-> "idle"]
      /\ loc = [c \in Cycles |-> InitLoc]
      /\ delivered = {}
      /\ input \in
           {[kind |-> "load", json |-> j, articles |-> <<>>] :
              j \in StoredTexts \ {"bucket"}}
           \cup
           {[kind |-> "load", json |-> "bucket", articles |-> a] :
              a \in SeqsUpTo2(Entries)}
      /\ output = <<>>
      /\ kvLastRun = Missing
      /\ MonInit

ApplyLoad ==
  /\ output = <<>>
  /\ output' = <<loadDailyStateFrom(input)>>
  /\ UNCHANGED <<input, procVars, monVars>>

SpecLoad == InitLoad /\ [][ApplyLoad]_vars

\* C27: loadDailyState returns an empty bucket with exists = false when the
\* stored value is missing, is not valid JSON, or is JSON of the wrong shape.
C27_MalformedIsFresh ==
  (output # <<>> /\ input.json # "bucket")
    => (output[1].exists = FALSE /\ output[1].articles = <<>>)

\* C28: a cycle whose feed request fails makes no delivery call and no KV
\* write: each of its steps from its start to the failed fetch leaves the
\* buckets, the ledger and the set of delivery calls as they were, and it
\* has issued no put.
C28_FailedFetchNoOp ==
  [][\A c \in Cycles :
       ((pc[c] \in {"idle", "loadDaily", "loadSent"} /\ pc'[c] # pc[c])
          \/ (pc[c] = "fetch" /\ pc'[c] = "idle"))
       => /\ kvDaily' = kvDaily
          /\ kvSent' = kvSent
          /\ delivered' = delivered
          /\ (pc[c] # "idle" => loc[c].puts = <<>>)
          /\ loc'[c].puts = <<>>]_vars

\* A cycle awaits its feed with a bucket and a ledger in the store and an
\* unsent article loaded: the request may now fail.
C28_Witness ==
  /\ pc["c1"] = "fetch"
  /\ feed # <<>>
  /\ kvDaily[loc["c1"].dateKey] # Missing
  /\ kvSent # Missing
  /\ \E i \in 1..Len(loc["c1"].state) : ~loc["c1"].state[i].sent

\* C29: a run of the news monitor whose read of the snapshot failed (it
\* takes itself for a first run although a snapshot with ids is stored)
\* writes neither the snapshot nor the sent map.
C29_SnapshotErrorNoOp ==
  [][(mpc # "idle" /\ mloc.isFirstRun /\ loadSnapshot(snapshot) # <<>>)
       => (snapshot' = snapshot /\ monSent' = monSent)]_vars

----------------------------------------------------------------------------
(* One invocation of processRSS over several sources: the loop              *)
(* for (const source of RSS_SOURCES) of the two workers of                  *)
(* src/unnamed/part_000, the one that keeps a cache of links ("cache",      *)
(* lines 81-150) and the one that keeps daily buckets ("daily", lines       *)
(* 581-666).  input is the environment of the invocation: the worker and    *)
(* the sources whose webhook is configured.  output is the invocation so    *)
(* far: the source in turn (i), the await its cycle is at (stage), the      *)
(* errors its helpers caught and logged (errors), and how the cycles of     *)
(* the sources before it ended (log).                                       *)

RSS_SOURCES(worker) ==
  IF worker = "daily" THEN <<"gnn", "4gamers", "pttSteam">>
  ELSE <<"gnn", "4gamers">>

\* The steps of a source's cycle, in the order of the loop body.
Stages(worker) ==
  IF worker = "daily"
  THEN <<"webhook", "loadDaily", "loadSent", "fetch", "parse", "send",
         "saveDaily", "saveSent">>
  ELSE <<"fetch", "parse", "webhook", "hasProcessed", "send", "markProcessed">>

\* The helpers that catch a KV error themselves and log it.
CatchingStages ==
  {"loadDaily", "loadSent", "saveDaily", "saveSent", "hasProcessed", "markProcessed"}

SourceCount == Len(RSS_SOURCES(input.worker))

StageCount == Len(Stages(input.worker))

CurrentStage == Stages(input.worker)[output.stage]

\* continue, the end of the loop body, or the end of the catch block.
NextSource(outcome) ==
  [i |-> output.i + 1, stage |-> 1, errors |-> <<>>,
   log |-> Append(output.log,
                  [source |-> RSS_SOURCES(input.worker)[output.i],
                   outcome |-> outcome,
                   reached |-> CurrentStage,
                   errors |-> output.errors])]

InitSources ==
  /\ now = StartClock
  /\ feed = <<>>
  /\ kvDaily = [d \in Days |-> Missing]
  /\ kvSent = Missing
  /\ variant = "gnn"
  /\ pc = [c \in Cycles |-> "idle"]
  /\ loc = [c \in Cycles |-> InitLoc]
  /\ delivered = {}
  /\ input \in
       {[kind |-> "sources", worker |-> w, webhooks |-> s] :
          w \in {"cache", "daily"},
          s \in SUBSET {"gnn", "4gamers", "pttSteam"}}
  /\ output = [i |-> 1, stage |-> 1, errors |-> <<>>, log |-> <<>>]
  /\ kvLastRun = Missing
  /\ MonInit

\* The step the cycle is at succeeds; env[source.webhookEnv] is looked up;
\* the worker with the cache of links goes on to the next source when
\* every item was processed before (fresh is false).
SourceStage(fresh) ==
  /\ output.i <= SourceCount
  /\ output' =
       IF CurrentStage = "webhook"
            /\ RSS_SOURCES(input.worker)[output.i] \notin input.webhooks
       THEN NextSource("noWebhook")
       ELSE IF CurrentStage = "hasProcessed" /\ ~fresh
       THEN NextSource("noNewItems")
       ELSE IF output.stage = StageCount THEN NextSource("completed")
       ELSE [output EXCEPT !.stage = @ + 1]
  /\ UNCHANGED <<input, procVars, monVars>>

\* if (!response.ok) continue.
SourceFetchNotOk ==
  /\ output.i <= SourceCount
  /\ CurrentStage = "fetch"
  /\ output' = NextSource("fetchNotOk")
  /\ UNCHANGED <<input, procVars, monVars>>

\* Mutant: an exception in a source's cycle ends the loop.
SourceThrowsAborts ==
  /\ output.i <= SourceCount
  /\ CurrentStage \in {"fetch", "parse", "send"}
  /\ output' = [NextSource("caught") EXCEPT !.i = SourceCount + 1]
  /\ UNCHANGED <<input, procVars, monVars>>

\* fetch, response.text, parseRSSItems or sendToDiscord throws: the catch
\* inside the loop logs the error.
SourceThrows ==
  /\ output.i <= SourceCount
  /\ CurrentStage \in {"fetch", "parse", "send"}
  /\ output' = NextSource("caught")
  /\ UNCHANGED <<input, procVars, monVars>>

\* A KV request rejects inside a helper that catches and logs: the cycle
\* goes on as after the helper's return.
SourceKvFails ==
  /\ output.i <= SourceCount
  /\ CurrentStage \in CatchingStages
  /\ output' =
       IF output.stage = StageCount
       THEN [NextSource("completed") EXCEPT
               !.log[Len(output.log) + 1].errors = Append(@, CurrentStage)]
       ELSE [output EXCEPT !.stage = @ + 1,
                           !.errors = Append(@, CurrentStage)]
  /\ UNCHANGED <<input, procVars, monVars>>

NextSources ==
  \/ \E fresh \in BOOLEAN : SourceStage(fresh)
  \/ SourceFetchNotOk
  \/ SourceThrows
  \/ SourceKvFails

SpecSources == InitSources /\ [][NextSources]_vars

\* C30: whatever fails in a source's cycle, the cycle of every source after
\* it runs: the sources of RSS_SOURCES have their cycles one after the
\* other, none is skipped whatever happened to those before it, a cycle is
\* recorded as completed exactly when it reached its last step, and the
\* loop is over only after the last source.
C30_SourceIsolation ==
  /\ Len(output.log) = output.i - 1
  /\ output.i <= SourceCount + 1
  /\ \A k \in 1..Len(output.log) :
       /\ output.log[k].source = RSS_SOURCES(input.worker)[k]
       /\ output.log[k].outcome = "completed"
            <=> output.log[k].reached = Stages(input.worker)[StageCount]

\* The first source's webhook is missing, the second source's cycle ends in
\* the catch block, and the cycle of the last source has completed.
C30_Witness ==
  /\ input.worker = "daily"
  /\ output.i = SourceCount + 1
  /\ output.log[1].outcome = "noWebhook"
  /\ output.log[2].outcome = "caught"
  /\ output.log[3].outcome = "completed"
  /\ output.log[3].errors # <<>>

\* C31: between two successive delivery calls of one cycle a pacing delay
\* occurs: a job that awaits the answer of a delivery call is never, one
\* step later, awaiting the answer of its next delivery call.
C31_Pacing ==
  [][/\ (mpc = "send" /\ Len(mloc'.calls) > Len(mloc.calls)) => mpc' # "send"
     /\ \A c \in Cycles :
          (pc[c] = "send" /\ Len(loc'[c].calls) > Len(loc[c].calls))
            => pc'[c] # "send"]_vars

----------------------------------------------------------------------------
(* The PTT Lifeismoney job (processLifeismoney, third file of               *)
(* src/ffxiv-tw-news-api.js).  feed is the list of today's entries of the   *)
(* board, kvDaily[d] the stored state of day d: Missing or Stored(items).   *)
(* A cycle keeps the merged items in loc[c].articles and the ids of the     *)
(* selected articles in loc[c].toSend.                                      *)

PUSH_THRESHOLD == 30

\* loadDailyState of the job: the items of the stored state, none when the
\* key is missing.
pttLoadDailyState(raw) == IF raw = Missing THEN <<>> ELSE raw[1]

\* Mutant: the selection looks at the push count only.
selectIgnoringSent(items, testMode) ==
  LET Eligible(item) == item.push >= PUSH_THRESHOLD
      candidates == SelectSeq(items, Eligible)
      Before(k, j) ==
        IF candidates[k].push # candidates[j].push
        THEN candidates[k].push > candidates[j].push
        ELSE StrLess(candidates[k].id, candidates[j].id)
      Place(j) == Cardinality({k \in 1..Len(candidates) : Before(k, j)}) + 1
      sorted == [p \in 1..Len(candidates) |->
                   candidates[CHOOSE j \in 1..Len(candidates) : Place(j) = p].id]
  IN  IF testMode /\ Len(sorted) > 0 THEN <<sorted[1]>> ELSE sorted

\* selectArticlesToSend: the unsent items whose push count reaches the
\* threshold, by falling push count and then by id; the ids of the result.
selectArticlesToSend(items, testMode) ==
  LET Eligible(item) == ~item.sent /\ item.push >= PUSH_THRESHOLD
      candidates == SelectSeq(items, Eligible)
      Before(k, j) ==
        IF candidates[k].push # candidates[j].push
        THEN candidates[k].push > candidates[j].push
        ELSE StrLess(candidates[k].id, candidates[j].id)
      Place(j) == Cardinality({k \in 1..Len(candidates) : Before(k, j)}) + 1
      sorted == [p \in 1..Len(candidates) |->
                   candidates[CHOOSE j \in 1..Len(candidates) : Place(j) = p].id]
  IN  IF testMode /\ Len(sorted) > 0 THEN <<sorted[1]>> ELSE sorted

\* The board with push counts p1 and p2 for its two articles of today.
BoardAt(p1, p2) ==
  <<[id |-> <<112, 49>>, url |-> <<117, 49>>, title |-> TitleOf(1),
     author |-> <<122>>, push |-> p1],
    [id |-> <<112, 50>>, url |-> <<117, 50>>, title |-> TitleOf(2),
     author |-> <<122>>, push |-> p2]>>

BoardPushes == {PUSH_THRESHOLD - 1, PUSH_THRESHOLD, PUSH_THRESHOLD + 1}

InitPtt ==
  /\ now = StartClock
  /\ feed = BoardAt(PUSH_THRESHOLD - 1, PUSH_THRESHOLD - 1)
  /\ kvDaily = [d \in Days |-> Missing]
  /\ kvSent = Missing
  /\ variant = "ptt"
  /\ pc = [c \in Cycles |-> "idle"]
  /\ loc = [c \in Cycles |-> InitLoc]
  /\ delivered = {}
  /\ input = <<>>
  /\ output = <<>>
  /\ kvLastRun = Missing
  /\ MonInit

\* Readers push and boo: the counts of the board change.
BoardUpdate ==
  /\ \E p1 \in BoardPushes, p2 \in BoardPushes : feed' = BoardAt(p1, p2)
  /\ feed' # feed
  /\ UNCHANGED <<now, kvDaily, kvSent, variant, pc, loc, delivered, input, output, kvLastRun, monVars>>

\* processLifeismoney(env, testMode) up to the request of the board.
PttStart(c, testMode) ==
  /\ pc[c] = "idle"
  /\ pc' = [pc EXCEPT ![c] = "pttFetch"]
  /\ loc' = [loc EXCEPT ![c] = [InitLoc EXCEPT !.testMode = testMode,
                                               !.dateKey = getTaipeiDateKey(now)]]
  /\ UNCHANGED <<now, feed, kvDaily, kvSent, variant, delivered, input, output, kvLastRun, monVars>>

\* fetchAllTodayEntries returns (with no entry when the response is not
\* OK); kv.get of the day's state is awaited.
PttFetched(c, ok) ==
  /\ pc[c] = "pttFetch"
  /\ loc' = [loc EXCEPT ![c].state = IF ok THEN feed ELSE <<>>]
  /\ pc' = [pc EXCEPT ![c] = "pttLoad"]
  /\ UNCHANGED <<now, feed, kvDaily, kvSent, variant, delivered, input, output, kvLastRun, monVars>>

\* The state arrives: mergeState, selectArticlesToSend.
PttLoaded(c) ==
  /\ pc[c] = "pttLoad"
  /\ LET allEntries == loc[c].state
         items == pttLoadDailyState(kvDaily[loc[c].dateKey])
         merged == mergeState(items, allEntries)
         toSend == selectArticlesToSend(merged, loc[c].testMode)
     IN  /\ loc' = [loc EXCEPT ![c].state = items,
                               ![c].articles = merged,
                               ![c].toSend = toSend,
                               ![c].idx = 1]
         /\ pc' = [pc EXCEPT ![c] = IF toSend = <<>> THEN "pttPut" ELSE "pttSend"]
  /\ UNCHANGED <<now, feed, kvDaily, kvSent, variant, delivered, input, output, kvLastRun, monVars>>

\* sendToDiscord returns sent (false also when the request rejects).
PttSendResult(c, sent) ==
  /\ pc[c] = "pttSend"
  /\ LET id == loc[c].toSend[loc[c].idx]
         i == ItemIndex(loc[c].articles, id)
     IN  /\ loc' = [loc EXCEPT
                      ![c].articles[i] =
                         IF sent THEN [@ EXCEPT !.sent = TRUE,
                                                !.sentAt = ToISOString(now)]
                         ELSE @,
                      ![c].calls = Append(@, id),
                      ![c].accepted = IF sent THEN Append(@, id) ELSE @]
         /\ delivered' = IF sent THEN delivered \cup {<<id, c>>} ELSE delivered
  /\ pc' = [pc EXCEPT ![c] = "pttSleep"]
  /\ UNCHANGED <<now, feed, kvDaily, kvSent, variant, input, output, kvLastRun, monVars>>

\* sleep(DISCORD_DELAY_MS) is over.
PttSleep(c) ==
  /\ pc[c] = "pttSleep"
  /\ loc' = [loc EXCEPT ![c].idx = @ + 1]
  /\ pc' = [pc EXCEPT ![c] = IF loc[c].idx < Len(loc[c].toSend)
                             THEN "pttSend" ELSE "pttPut"]
  /\ UNCHANGED <<now, feed, kvDaily, kvSent, variant, delivered, input, output, kvLastRun, monVars>>

\* kv.put of the merged state; when it rejects (ok false) the catch logs.
PttPut(c, ok) ==
  /\ pc[c] = "pttPut"
  /\ kvDaily' = IF ok THEN [kvDaily EXCEPT ![loc[c].dateKey] = Stored(loc[c].articles)]
                ELSE kvDaily
  /\ pc' = [pc EXCEPT ![c] = "idle"]
  /\ loc' = [loc EXCEPT ![c] = [InitLoc EXCEPT !.calls = loc[c].calls,
                                               !.accepted = loc[c].accepted]]
  /\ UNCHANGED <<now, feed, kvSent, variant, delivered, input, output, kvLastRun, monVars>>

\* Cycles that follow one another on one day.
NextPtt ==
  \/ BoardUpdate
  \/ \E testMode \in BOOLEAN : PttStart("c1", testMode)
  \/ \E ok \in BOOLEAN : PttFetched("c1", ok)
  \/ PttLoaded("c1")
  \/ \E sent \in BOOLEAN : PttSendResult("c1", sent)
  \/ PttSleep("c1")
  \/ \E ok \in BOOLEAN : PttPut("c1", ok)

SpecPtt == InitPtt /\ [][NextPtt]_vars

----------------------------------------------------------------------------
(* The Bahamut forum job (processForum, src/bahamut-forum.js).  feed is     *)
(* what parseArticles yields for the forum page: articles [id, popularity]. *)
(* kvSent is KV sent:bahamut-forum: Missing or Stored(entries), an entry    *)
(* being [hash, sentAt, id, popularity].  delivered holds, for each         *)
(* delivery the webhook accepted, <<id, time, testMode>>.  A cycle takes    *)
(* far less than one tick, so the clock stands still while one runs.        *)

\* hashId is the 32-bit FNV-1a of hashIdentifier, in eight hex digits.
hashId(id) == hashIdentifier(id)

ForumSentHas(m, hash) == \E i \in 1..Len(m) : m[i].hash = hash

\* sentMap.set(hashId(article.id), {sentAt, id, popularity}).
ForumSet(m, article, t) ==
  LET e == [hash |-> hashId(article.id), sentAt |-> ToISOString(t),
            id |-> article.id, popularity |-> article.popularity]
  IN  IF ForumSentHas(m, e.hash)
      THEN [i \in 1..Len(m) |-> IF m[i].hash = e.hash THEN e ELSE m[i]]
      ELSE Append(m, e)

\* Mutant: the first unsent article is taken.
topArticleFirst(unsent) == unsent[1]

\* unsent.reduce((max, a) => a.popularity > max.popularity ? a : max): the
\* first article of the largest popularity.
RECURSIVE topArticle(_)
topArticle(unsent) ==
  IF Len(unsent) = 1 THEN unsent[1]
  ELSE LET max == topArticle(SubSeq(unsent, 1, Len(unsent) - 1))
           article == unsent[Len(unsent)]
       IN  IF article.popularity > max.popularity THEN article ELSE max

ForumArticle(k, popularity) == [id |-> <<48 + k>>, popularity |-> popularity]

\* The forum page: article 1 always, article 2 comes and goes.
ForumPages ==
  {<<ForumArticle(1, p)>> \o x :
     p \in 1..2, x \in {<<>>, <<ForumArticle(2, 2)>>}}

InitForum ==
  /\ now = MaxClock - DayTicks
  /\ feed \in ForumPages
  /\ kvDaily = [d \in Days |-> Missing]
  /\ kvSent = Missing
  /\ kvLastRun = Missing
  /\ variant = "forum"
  /\ pc = [c \in Cycles |-> "idle"]
  /\ loc = [c \in Cycles |-> InitLoc]
  /\ delivered = {}
  /\ input = <<>>
  /\ output = <<>>
  /\ MonInit

\* Eight hours pass between two cycles; the page changes.
ForumTick ==
  /\ \A c \in Cycles : pc[c] = "idle"
  /\ now < MaxClock
  /\ now' = now + 1
  /\ feed' \in ForumPages
  /\ UNCHANGED <<kvDaily, kvSent, kvLastRun, variant, pc, loc, delivered,
                 input, output, monVars>>

\* processForum(env, testMode) up to its first await: kv.get(lastRunKey)
\* outside test mode, kv.get(sentKey) in test mode.
FStart(c, testMode) ==
  /\ pc[c] = "idle"
  /\ pc' = [pc EXCEPT ![c] = IF testMode THEN "forumSent" ELSE "forumGate"]
  /\ loc' = [loc EXCEPT ![c] = [InitLoc EXCEPT !.testMode = testMode,
                                               !.startedAt = now]]
  /\ UNCHANGED <<now, feed, kvDaily, kvSent, variant, delivered, input, output, kvLastRun, monVars>>

\* The last run time arrives: less than 24 hours (DayTicks) ago, return.
FGate(c) ==
  /\ pc[c] = "forumGate"
  /\ IF kvLastRun # Missing
          /\ loc[c].startedAt - DateParse(kvLastRun[1])[1] < DayTicks
     THEN pc' = [pc EXCEPT ![c] = "idle"] /\ loc' = [loc EXCEPT ![c] = InitLoc]
     ELSE pc' = [pc EXCEPT ![c] = "forumSent"] /\ UNCHANGED loc
  /\ UNCHANGED <<now, feed, kvDaily, kvSent, variant, delivered, input, output, kvLastRun, monVars>>

\* The sent map arrives; the forum page is requested.
FLoadSent(c) ==
  /\ pc[c] = "forumSent"
  /\ loc' = [loc EXCEPT ![c].sentMap = IF kvSent = Missing THEN <<>> ELSE kvSent[1]]
  /\ pc' = [pc EXCEPT ![c] = "forumFetch"]
  /\ UNCHANGED <<now, feed, kvDaily, kvSent, variant, delivered, input, output, kvLastRun, monVars>>

\* The page arrives: parseArticles, filter, reduce; sendDiscordSingle is
\* called for the top article, or the run returns with nothing unsent.
FFetched(c) ==
  /\ pc[c] = "forumFetch"
  /\ LET Unsent1(a) == ~ForumSentHas(loc[c].sentMap, hashId(a.id))
         unsent == SelectSeq(feed, Unsent1)
     IN  IF Len(unsent) = 0
         THEN /\ pc' = [pc EXCEPT ![c] = "idle"]
              /\ loc' = [loc EXCEPT ![c] = InitLoc]
         ELSE /\ pc' = [pc EXCEPT ![c] = "forumSend"]
              /\ loc' = [loc EXCEPT ![c].articles = feed,
                                    ![c].toSend = <<topArticle(unsent)>>,
                                    ![c].calls = <<topArticle(unsent).id>>]
  /\ UNCHANGED <<now, feed, kvDaily, kvSent, variant, delivered, input, output, kvLastRun, monVars>>

\* The response is not OK or the request rejects: the catch logs.
FFetchFails(c) ==
  /\ pc[c] = "forumFetch"
  /\ pc' = [pc EXCEPT ![c] = "idle"]
  /\ loc' = [loc EXCEPT ![c] = InitLoc]
  /\ UNCHANGED <<now, feed, kvDaily, kvSent, variant, delivered, input, output, kvLastRun, monVars>>

\* sendDiscordSingle returns sent: the entry is set and the sent map is
\* put, or the run ends.
FSendResult(c, sent) ==
  /\ pc[c] = "forumSend"
  /\ LET topArticle1 == loc[c].toSend[1]
     IN  IF sent
         THEN /\ loc' = [loc EXCEPT
                           ![c].sentMap = ForumSet(@, topArticle1, loc[c].startedAt),
                           ![c].accepted = <<topArticle1.id>>]
              /\ delivered' = delivered \cup {<<topArticle1.id, now, loc[c].testMode>>}
              /\ pc' = [pc EXCEPT ![c] = "forumPutSent"]
         ELSE /\ pc' = [pc EXCEPT ![c] = "idle"]
              /\ loc' = [loc EXCEPT ![c] = InitLoc]
              /\ UNCHANGED delivered
  /\ UNCHANGED <<now, feed, kvDaily, kvSent, variant, input, output, kvLastRun, monVars>>

\* kv.put(sentKey, ...) returns, or rejects and the catch ends the run.
FPutSent(c, ok) ==
  /\ pc[c] = "forumPutSent"
  /\ kvSent' = IF ok THEN Stored(loc[c].sentMap) ELSE kvSent
  /\ pc' = [pc EXCEPT ![c] = IF ok THEN "forumPutLastRun" ELSE "idle"]
  /\ loc' = [loc EXCEPT ![c] = IF ok THEN @ ELSE InitLoc]
  /\ UNCHANGED <<now, feed, kvDaily, variant, delivered, input, output, kvLastRun, monVars>>

\* kv.put(lastRunKey, now.toISOString(), ...) returns or rejects.
FPutLastRun(c, ok) ==
  /\ pc[c] = "forumPutLastRun"
  /\ kvLastRun' = IF ok THEN Stored(ToISOString(loc[c].startedAt)) ELSE kvLastRun
  /\ pc' = [pc EXCEPT ![c] = "idle"]
  /\ loc' = [loc EXCEPT ![c] = InitLoc]
  /\ UNCHANGED <<now, feed, kvDaily, kvSent, variant, delivered, input, output, monVars>>

\* Cycles that follow one another, scheduled and triggered by hand.
NextForum ==
  \/ ForumTick
  \/ \E testMode \in BOOLEAN : FStart("c1", testMode)
  \/ FGate("c1")
  \/ FLoadSent("c1")
  \/ FFetched("c1")
  \/ FFetchFails("c1")
  \/ \E sent \in BOOLEAN : FSendResult("c1", sent)
  \/ \E ok \in BOOLEAN : FPutSent("c1", ok)
  \/ \E ok \in BOOLEAN : FPutLastRun("c1", ok)

SpecForum == InitForum /\ [][NextForum]_vars

\* C33: a processForum cycle makes at most one delivery call; the article
\* it delivers has the largest popularity among the fetched articles whose
\* hashed id the stored sent map does not hold; and the sent map and the
\* last-run time are written only by a cycle whose delivery was accepted.
C33_ForumOneTopArticle ==
  /\ [](\A c \in Cycles :
          /\ Len(loc[c].calls) <= 1
          /\ pc[c] = "forumSend"
               => LET stored == IF kvSent = Missing THEN <<>> ELSE kvSent[1]
                      top == loc[c].toSend[1]
                  IN  /\ ~ForumSentHas(stored, hashId(top.id))
                      /\ \E i \in 1..Len(feed) : feed[i] = top
                      /\ \A i \in 1..Len(feed) :
                           ~ForumSentHas(stored, hashId(feed[i].id))
                             => feed[i].popularity <= top.popularity)
  /\ [][(kvSent' # kvSent \/ kvLastRun' # kvLastRun)
          => \E c \in Cycles : loc[c].accepted # <<>>]_vars

\* The webhook has accepted the second article of the page, the more
\* popular of the two, in a cycle that found a stored sent map.
C33_Witness ==
  /\ pc["c1"] = "forumPutSent"
  /\ kvSent # Missing
  /\ Len(feed) = 2
  /\ loc["c1"].accepted = <<feed[2].id>>
  /\ feed[1].popularity < feed[2].popularity

\* C34: a scheduled cycle that starts less than 24 hours after the recorded
\* last run fetches nothing, delivers nothing and writes nothing, so two
\* deliveries of scheduled cycles are at least 24 hours apart.
C34_ForumDailyGate ==
  \A d \in delivered : \A e \in delivered :
    (d # e /\ ~d[3] /\ ~e[3])
      => (d[2] - e[2] >= DayTicks \/ e[2] - d[2] >= DayTicks)

----------------------------------------------------------------------------
(* fetchWithRetry of the Plurk worker (src/unnamed/part_001).  input is the *)
(* call: [kind, maxRetries].  output is the call so far: the value of       *)
(* attempt, where the call is (at "fetch", at "delay", "returned" or        *)
(* "thrown"), the status of each response received (0 for a request that    *)
(* rejected), the attempts after which the backoff delay was awaited, and   *)
(* lastError (the status of the attempt it comes from, <<>> for none).      *)

\* Calls are made with maxRetries from 1 to MaxTries.
MaxTries == 4

Statuses == {0, 200, 404, 503}

InitRetry ==
  /\ now = StartClock
  /\ feed = <<>>
  /\ kvDaily = [d \in Days |-> Missing]
  /\ kvSent = Missing
  /\ kvLastRun = Missing
  /\ variant = "plurk"
  /\ pc = [c \in Cycles |-> "idle"]
  /\ loc = [c \in Cycles |-> InitLoc]
  /\ delivered = {}
  /\ input \in {[kind |-> "retry", maxRetries |-> n] : n \in 1..MaxTries}
  /\ output = [attempt |-> 0, at |-> "fetch", requests |-> <<>>,
               delays |-> <<>>, lastError |-> <<>>]
  /\ MonInit

\* Mutant: the backoff delay is awaited after the last attempt too.
RetryResponseNoBreak(status) ==
  /\ output.at = "fetch"
  /\ output' =
       [output EXCEPT
          !.requests = Append(@, status),
          !.lastError = IF status = 200 THEN @ ELSE <<status>>,
          !.delays = IF status # 200 /\ output.attempt = input.maxRetries - 1
                     THEN Append(@, output.attempt) ELSE @,
          !.at = IF status = 200 THEN "returned"
                 ELSE IF output.attempt = input.maxRetries - 1 THEN "thrown"
                 ELSE "delay"]
  /\ UNCHANGED <<input, procVars, monVars>>

\* await fetch(url, options) settles with a response of the given status or
\* rejects (status 0).  An OK response is returned.  The throw for a status
\* below 500 is inside the try block: the catch takes it as lastError, as
\* it takes a rejection, and the loop goes on as after a 5xx response.
RetryResponse(status) ==
  /\ output.at = "fetch"
  /\ output' =
       [output EXCEPT
          !.requests = Append(@, status),
          !.lastError = IF status = 200 THEN @ ELSE <<status>>,
          !.at = IF status = 200 THEN "returned"
                 ELSE IF output.attempt = input.maxRetries - 1 THEN "thrown"
                 ELSE "delay"]
  /\ UNCHANGED <<input, procVars, monVars>>

\* The backoff delay is over: attempt++ and the next request.
RetryDelay ==
  /\ output.at = "delay"
  /\ output' = [output EXCEPT !.delays = Append(@, output.attempt),
                              !.attempt = @ + 1,
                              !.at = "fetch"]
  /\ UNCHANGED <<input, procVars, monVars>>

NextRetry ==
  \/ \E status \in Statuses : RetryResponse(status)
  \/ RetryDelay

SpecRetry == InitRetry /\ [][NextRetry]_vars

\* C35: fetchWithRetry makes no further attempt after a 4xx response: a
\* response with a status from 400 to 499 is the last request of the call.
C35_NoRetryOn4xx ==
  \A i \in 1..Len(output.requests) :
    (output.requests[i] >= 400 /\ output.requests[i] < 500)
      => (i = Len(output.requests) /\ output.at = "thrown")

\* C36: fetchWithRetry issues at most maxRetries requests, returns the
\* first OK response without a further request, otherwise throws the error
\* of the last attempt, and awaits a backoff delay only between attempts.
C36_RetryTerminates ==
  /\ Len(output.requests) <= input.maxRetries
  /\ \A i \in 1..Len(output.requests) :
       output.requests[i] = 200
         => (i = Len(output.requests) /\ output.at = "returned")
  /\ output.at = "returned"
       => output.requests[Len(output.requests)] = 200
  /\ output.at = "thrown"
       => /\ Len(output.requests) = input.maxRetries
          /\ output.lastError = <<output.requests[input.maxRetries]>>
  /\ output.at \in {"returned", "thrown", "delay"}
       => Len(output.delays) = Len(output.requests) - 1
  /\ output.at = "fetch" => Len(output.delays) = Len(output.requests)
  /\ \A i \in 1..Len(output.delays) : output.delays[i] < input.maxRetries - 1

\* Both ends of a call with the largest maxRetries: every attempt has
\* failed, and an OK response at the second attempt.
C36_Witness ==
  /\ input.maxRetries = MaxTries
  /\ \/ output.at = "thrown" /\ Len(output.delays) = input.maxRetries - 1
     \/ output.at = "returned" /\ Len(output.requests) = 2

\* C37: after every cycle of the FFXIV worker, also one in which a KV write
\* failed, each article that a stored bucket records as sent has an entry
\* under the hash of its identity in the stored ledger.
C37_BucketLedgerAgree ==
  (variant = "ffxiv" /\ \A c \in Cycles : pc[c] = "idle")
    => \A d \in Days : \A i \in 1..Len(BucketOf(d)) :
         BucketOf(d)[i].sent
           => hashIdentifier(getArticleIdentity(BucketOf(d)[i])) \in LedgerHashes

----------------------------------------------------------------------------
(* markPreviouslySentArticles as a function of the articles and of a        *)
(* ledger.  The ledger is what setSentEntry recorded when the articles      *)
(* of input.recorded were delivered.  The guids are the words liquid,       *)
(* costarring, altarage and zinke: hashIdentifier gives 5e4daa9d for the    *)
(* first two and e460d8b6 for the last two.                                 *)

InitReconcile ==
  LET Guids == {Null,
                <<108, 105, 113, 117, 105, 100>>,
                <<99, 111, 115, 116, 97, 114, 114, 105, 110, 103>>,
                <<97, 108, 116, 97, 114, 97, 103, 101>>,
                <<122, 105, 110, 107, 101>>}
      Articles == {[StoredArticle(k, 1, StartClock, FALSE) EXCEPT !.guid = g] :
                     k \in 1..2, g \in Guids}
      Recorded(a) == setSentEntry(<<>>, a, StartClock).map
  IN  /\ now = StartClock
      /\ feed = <<>>
      /\ kvDaily = [d \in Days |-> Missing]
      /\ kvSent = Missing
      /\ kvLastRun = Missing
      /\ variant = "ffxiv"
      /\ pc = [c \in Cycles |-> "idle"]
      /\ loc = [c \in Cycles |-> InitLoc]
      /\ delivered = {}
      /\ input \in
           {[kind |-> "reconcile", articles |-> <<a>>, recorded |-> <<r>>,
             sentMap |-> Recorded(r)] : a \in Articles, r \in Articles}
      /\ output = <<>>
      /\ MonInit

ApplyReconcile ==
  /\ output = <<>>
  /\ output' = <<markPreviouslySentArticles(input.articles, input.sentMap)>>
  /\ UNCHANGED <<input, procVars, monVars>>

SpecReconcile == InitReconcile /\ [][ApplyReconcile]_vars

\* C38: markPreviouslySentArticles marks an unsent article as sent only if
\* an article of the same identity was delivered and recorded before.
C38_ReconcileByIdentity ==
  output # <<>>
    => \A i \in 1..Len(input.articles) :
         (output[1].articles[i].sent /\ ~input.articles[i].sent)
           => \E j \in 1..Len(input.recorded) :
                getArticleIdentity(input.recorded[j])
                  = getArticleIdentity(input.articles[i])

----------------------------------------------------------------------------
(* findTopKPlurks of the Plurk worker (src/unnamed/part_001).  input is     *)
(* [kind, validResults, k]: validResults lists the hourly snapshots read    *)
(* from KV, each [ok, plurks] with ok false for a value that is not the     *)
(* JSON of an array; a plurk is [plurk_id, response_count, favorite_count,  *)
(* replurkers_count], plurk_id 0 standing for a missing id.  The heap is    *)
(* the array of [plurk, score], index 0 of the code being position 1.       *)

\* findTopKPlurks is applied with k from 1 to MaxK.
MaxK == 2

\* score, with the weights of CONFIG.HOTNESS_WEIGHTS.
PlurkScore(plurk) ==
  plurk.response_count * 2 + plurk.favorite_count + plurk.replurkers_count

\* heap.sort by score, rising or falling; Array.prototype.sort is stable.
SortHeap(heap, rising) ==
  LET Before(i, j) ==
        IF heap[i].score # heap[j].score
        THEN (IF rising THEN heap[i].score < heap[j].score
              ELSE heap[i].score > heap[j].score)
        ELSE i < j
      Place(j) == Cardinality({i \in 1..Len(heap) : Before(i, j)}) + 1
  IN  [p \in 1..Len(heap) |-> heap[CHOOSE j \in 1..Len(heap) : Place(j) = p]]

\* The while loop that moves heap[i] down, for a heap of k elements.
RECURSIVE SiftDown(_, _, _)
SiftDown(heap, i, k) ==
  IF i * 2 + 1 >= k THEN heap
  ELSE
    LET left == i * 2 + 1
        right == i * 2 + 2
        s == IF left < k /\ heap[left + 1].score < heap[i + 1].score
             THEN left ELSE i
        smallest == IF right < k /\ heap[right + 1].score < heap[s + 1].score
                    THEN right ELSE s
    IN  IF smallest = i THEN heap
        ELSE SiftDown([heap EXCEPT ![i + 1] = heap[smallest + 1],
                                   ![smallest + 1] = heap[i + 1]],
                      smallest, k)

\* The body of for (const plurk of hourlyPlurks).
HeapAdd(heap, plurk, k) ==
  IF plurk.plurk_id = 0 \/ PlurkScore(plurk) = 0 THEN heap
  ELSE IF Len(heap) < k
       THEN LET pushed == Append(heap, [plurk |-> plurk, score |-> PlurkScore(plurk)])
            IN  IF Len(pushed) = k THEN SortHeap(pushed, TRUE) ELSE pushed
  ELSE IF PlurkScore(plurk) > heap[1].score
       THEN SiftDown([heap EXCEPT ![1] = [plurk |-> plurk, score |-> PlurkScore(plurk)]],
                     0, k)
  ELSE heap

RECURSIVE HeapAddAll(_, _, _)
HeapAddAll(heap, plurks, k) ==
  IF plurks = <<>> THEN heap
  ELSE HeapAddAll(HeapAdd(heap, Head(plurks), k), Tail(plurks), k)

RECURSIVE HeapOf(_, _, _)
HeapOf(heap, validResults, k) ==
  IF validResults = <<>> THEN heap
  ELSE HeapOf(IF Head(validResults).ok
              THEN HeapAddAll(heap, Head(validResults).plurks, k)
              ELSE heap,
              Tail(validResults), k)

findTopKPlurks(validResults, k) ==
  LET heap == SortHeap(HeapOf(<<>>, validResults, k), FALSE)
  IN  [i \in 1..Len(heap) |->
         [plurk_id |-> heap[i].plurk.plurk_id,
          response_count |-> heap[i].plurk.response_count,
          favorite_count |-> heap[i].plurk.favorite_count,
          replurkers_count |-> heap[i].plurk.replurkers_count,
          hotness_score |-> heap[i].score]]

InitTopK ==
  LET Plurk(id, r, f) ==
        [plurk_id |-> id, response_count |-> r, favorite_count |-> f,
         replurkers_count |-> 0]
      Plurks == {Plurk(1, 1, 0), Plurk(1, 2, 0), Plurk(2, 1, 1), Plurk(3, 0, 1),
                 Plurk(2, 0, 0), Plurk(0, 3, 0)}
      Snapshots == {[ok |-> FALSE, plurks |-> <<>>]}
                     \cup {[ok |-> TRUE, plurks |-> s] : s \in SeqsUpTo2(Plurks)}
  IN  /\ now = StartClock
      /\ feed = <<>>
      /\ kvDaily = [d \in Days |-> Missing]
      /\ kvSent = Missing
      /\ kvLastRun = Missing
      /\ variant = "plurk"
      /\ pc = [c \in Cycles |-> "idle"]
      /\ loc = [c \in Cycles |-> InitLoc]
      /\ delivered = {}
      /\ input \in
           {[kind |-> "topk", validResults |-> <<x, y>>, k |-> k] :
              x \in Snapshots, y \in Snapshots, k \in 1..MaxK}
      /\ output = <<>>
      /\ MonInit

ApplyTopK ==
  /\ output = <<>>
  /\ output' = <<findTopKPlurks(input.validResults, input.k)>>
  /\ UNCHANGED <<input, procVars, monVars>>

SpecTopK == InitTopK /\ [][ApplyTopK]_vars

\* C39: the list returned by findTopKPlurks never contains the same
\* plurk_id twice.
C39_TopNoRepeat ==
  output # <<>>
    => \A i \in 1..Len(output[1]) : \A j \in 1..Len(output[1]) :
         output[1][i].plurk_id = output[1][j].plurk_id => i = j

====
